---- MODULE Spec2Model ----
(***************************************************************************)
(* Model of EcommerceDataGenerator (src/scripts/generate_dataset.py).      *)
(*                                                                         *)
(* Money: every recorded amount is a number of cents.  The code works in   *)
(* floats rounded with round(x, 2); an unrounded product such as           *)
(* subtotal * 0.08 is held here in hundredths of a cent and RoundCents     *)
(* brings it back to cents.  When the exact value lies half way between    *)
(* two cents the float the code rounds is a hair above or below the half,  *)
(* so both neighbours are possible results.                                *)
(*                                                                         *)
(* Random draws (random.*, Faker) are nondeterministic choices.            *)
(***************************************************************************)
EXTENDS Integers, Sequences, FiniteSets, TLC

VARIABLES
    config,        \* self.config
    stage,         \* the stage generate_all runs next, "done" or "failed"
    error,         \* the exception that left generate_all, or "none"
    categories,    \* self.categories
    products,      \* self.products
    users,         \* self.users
    transactions,  \* self.transactions
    sessions,      \* self.sessions
    txn_i,         \* iterations of the transaction loop done so far
    attempt,       \* what the last transaction iteration drew and did
    files,         \* the session chunk files written by save_data
    summary,       \* the summary document written, if any
    runs,          \* two independent runs with the same seed, side by side
    random,        \* the random module: the values its draws can return
    inv,           \* an InventoryManager over self.products and its callers
    loader         \* a loader run over the session files written

vars == <<config, stage, error, categories, products, users, transactions,
          sessions, txn_i, attempt, files, summary, runs, random, inv,
          loader>>

(***************************************************************************)
(* Bounds of the model.                                                    *)
(***************************************************************************)
MaxCategories == 2  \* NUM_CATEGORIES of a pipeline configuration is in 0..MaxCategories
MaxCount == 1       \* every other NUM_* of a pipeline configuration is in 0..MaxCount
MaxStock == 4       \* largest initial current_stock drawn (the code: 1000)
TxnAttempts == 2    \* NUM_TRANSACTIONS of the transaction-stage specification

(***************************************************************************)
(* Program constants.                                                      *)
(***************************************************************************)
TaxonomySize == 10        \* len(category_data)
NumSubcategories == 5     \* subcategories of each taxonomy entry
MaxPreferred == 5         \* k = random.randint(1, 5)
MaxItems == 5             \* num_items drawn from [1, 2, 3, 4, 5]
MaxQuantity == 3          \* quantity <= min(3, current_stock)
TaxPercent == 8           \* tax = 8% of the subtotal
FreeShippingOver == 5000  \* shipping is free when subtotal > 50
ShippingFee == 999        \* the flat fee 9.99
ViewPool == 100           \* self.products[:100]
MaxViewed == 5            \* k = random.randint(0, 5)
MaxChanges == 4           \* num_changes = random.randint(0, 4)
MinDaysForward == 7       \* days_forward = random.randint(7, 45)
MaxDaysForward == 45
MinProfitMargin == 150    \* random.uniform(0.15, 0.45), in thousandths
MaxProfitMargin == 450
FileWindow == 20          \* the loaders' for i in range(20)
BatchSize == 1000         \* load_session_files: batch_size = 1000
MongoBatchSize == 1000    \* _load_sessions_files: batch_size = 1000
ShellBatchSize == 50      \* load_all_session_data: batch_size = 50 commands
InteractionFiles == 5     \* load_product_interaction_data: for i in range(5)

DiscountRates == {5, 10, 15, 20}    \* percent
AccountStatuses == {"active", "inactive", "suspended"}
\* The five statuses the code draws from; it never branches on the status.
Statuses == {"completed", "processing", "shipped", "delivered", "cancelled"}
\* The statuses the model draws: one of the four that are not a cancellation,
\* and the cancellation.
StatusDraws == {"completed", "cancelled"}
\* base_price values drawn (cents); the code draws any 2-decimal price of the
\* category's range and then applies its price changes.
Prices == {305, 5000}
StockDraws == {0, 1, MaxStock}

\* The price changes of _generate_price_history: the change types and, for
\* each, the two ends of the range its change_factor is drawn from (percent).
ChangeTypes ==
    {"promotion", "market_adjustment", "cost_increase", "clearance", "restock"}

ChangeFactors(change_type) ==
    CASE change_type = "promotion" -> {70, 90}
      [] change_type = "clearance" -> {50, 80}
      [] change_type = "cost_increase" -> {105, 125}
      [] OTHER -> {90, 110}

Changes ==
    UNION {{[change_type |-> t, change_factor |-> f] :
              f \in ChangeFactors(t)} : t \in ChangeTypes}

(***************************************************************************)
(* The random module.  Its state is held as the values its draws can       *)
(* return during the run: a specification starts from the part of the      *)
(* outcomes it explores, and no action changes it.                         *)
(*   profit_margin  random.uniform(0.15, 0.45) of a subcategory            *)
(*   num_changes    random.randint(0, 4) of a price history                *)
(*   days_forward   random.randint(7, 45) of a price change                *)
(*   change         the change_type and change_factor of a price change    *)
(*   viewed         the product ids a session's sample can return          *)
(***************************************************************************)
\* One margin, no price change, any generated product viewed.
PlainDraws ==
    [profit_margin |-> {200}, num_changes |-> {0}, days_forward |-> {},
     change |-> {}, viewed |-> 0..ViewPool]

\* The ends of every range of a price history.
PriceDraws ==
    [profit_margin |-> {MinProfitMargin, MaxProfitMargin},
     num_changes |-> 0..MaxChanges,
     days_forward |-> {MinDaysForward, MaxDaysForward},
     change |-> {c \in Changes :
                   c.change_type \in {"promotion", "cost_increase"}
                   /\ c.change_factor \in {70, 125}},
     viewed |-> 0..ViewPool]

(***************************************************************************)
(* Helpers.                                                                *)
(***************************************************************************)
Min(a, b) == IF a < b THEN a ELSE b

RECURSIVE SumFrom(_, _, _)
\* s[first] + ... + s[last], by halves
SumFrom(s, first, last) ==
    IF first > last THEN 0
    ELSE IF first = last THEN s[first]
    ELSE LET middle == (first + last) \div 2
         IN  SumFrom(s, first, middle) + SumFrom(s, middle + 1, last)

SeqSum(s) == SumFrom(s, 1, Len(s))

\* random.sample(population, k): the sequences of k distinct members of S.
\* Python raises ValueError when k exceeds the population; the callers model
\* that case themselves.
Samples(S, k) ==
    {s \in [1..k -> S] : \A i, j \in 1..k : i # j => s[i] # s[j]}

\* round(x, 2) of an amount x held in hundredths of a cent, as cents.
RoundCents(x) ==
    LET lo == x \div 100
        r  == x % 100
    IN  IF r < 50 THEN {lo}
        ELSE IF r > 50 THEN {lo + 1}
        ELSE {lo, lo + 1}

\* round(a / b, 0) for b > 0, both neighbours on a tie.
RoundDiv(a, b) ==
    LET lo == a \div b
        r  == a % b
    IN  IF 2 * r < b THEN {lo}
        ELSE IF 2 * r > b THEN {lo + 1}
        ELSE {lo, lo + 1}

\* no summary written yet; a written summary is the one-element sequence
NoSummary == <<>>

NoRuns == <<>>

\* no InventoryManager constructed
NoInventory == [lock |-> 0, initial |-> <<>>, thread |-> <<>>]

\* a loader of one kind before its run: the stages it ran and how each
\* ended, the session files it found, the place of the file it works on in
\* that list, the sessions of that file it is done with, the files it
\* opened, the files it could not read, the batches it sent, its counter of
\* sessions, the product views it gathered, its connection, what it
\* returned, and the failures it met
NewLoader(kind) ==
    [kind |-> kind,
     pc |-> IF kind = "hbase" THEN "connect" ELSE "find_files",
     stages |-> <<>>, session_files |-> <<>>, file |-> 0, pos |-> 0,
     attempted |-> {}, unread |-> {}, batches |-> <<>>, total |-> 0,
     views |-> 0, connection |-> "none", result |-> "none", faults |-> 0]

\* no loader started
NoLoader == [NewLoader("none") EXCEPT !.pc = "none"]

NoAttempt == [num_items |-> 0, available |-> 0, outcome |-> "none"]

\* An order in which every stage is followed by save_data.
StageAfterSaves(st) == "save"

\* generate_all's order: the stage that runs once stage st has ended.  A
\* loop over range(0) has no iteration to run and is passed over.
RECURSIVE StageAfter(_)
StageAfter(st) ==
    CASE st = "categories" ->
           IF config.NUM_PRODUCTS > 0 THEN "products"
           ELSE StageAfter("products")
      [] st = "products" ->
           IF config.NUM_USERS > 0 THEN "users" ELSE StageAfter("users")
      [] st = "users" ->
           IF config.NUM_TRANSACTIONS > 0 THEN "transactions"
           ELSE StageAfter("transactions")
      [] st = "transactions" ->
           IF config.NUM_SESSIONS > 0 THEN "sessions" ELSE "save"
      [] st = "sessions" -> "save"

\* The stage after iteration number `done` of the loop of stage st, which
\* runs `total` iterations.
LoopStage(done, total, st) == IF done = total THEN StageAfter(st) ELSE st

Raise(e) ==
    /\ stage' = "failed"
    /\ error' = e

(***************************************************************************)
(* generate_categories: the first min(NUM_CATEGORIES, 10) taxonomy         *)
(* entries, each with a random is_active flag and its five subcategories.  *)
(***************************************************************************)
\* A slice that is not clamped to the taxonomy.
TaxonomySliceUnclamped(n) == n

\* len(category_data[:n]) for a count n >= 0
TaxonomySlice(n) == Min(n, TaxonomySize)

\* The subcategories of category cat_id: sub_{cat_id:03d}_{sub_id:02d} is held
\* as the pair <<cat_id, sub_id>>, the profit_margin in thousandths.
Subcategories(cat_id, margin) ==
    [sub_id \in 1..NumSubcategories |->
        [subcategory_id |-> <<cat_id, sub_id - 1>>,
         profit_margin |-> margin[sub_id]]]

generate_categories ==
    /\ stage = "categories"
    /\ UNCHANGED <<runs, random, inv, loader>>
    /\ LET n == TaxonomySlice(config.NUM_CATEGORIES)
       IN  \E active \in [1..n -> BOOLEAN] :
           \E margin \in [1..n -> [1..NumSubcategories ->
                                     random.profit_margin]] :
             categories' =
               [i \in 1..n |->
                  [category_id |-> i - 1,
                   is_active |-> active[i],
                   subcategories |-> Subcategories(i - 1, margin[i])]]
    /\ stage' = StageAfter("categories")
    /\ UNCHANGED <<config, error, products, users, transactions, sessions,
                   txn_i, attempt, files, summary>>

(***************************************************************************)
(* generate_products: one iteration of the loop.                           *)
(***************************************************************************)
\* A subcategory drawn from the whole taxonomy instead of the category.
SubcategoryChoicesAnyCategory(c) ==
    UNION {{categories[d].subcategories[s] :
              s \in 1..Len(categories[d].subcategories)} :
           d \in 1..Len(categories)}

\* random.choice(category["subcategories"]) for the category at index c
SubcategoryChoices(c) ==
    {categories[c].subcategories[s] :
        s \in 1..Len(categories[c].subcategories)}

\* A date that moves back.
NextDateBackward(date, days_forward) == date - days_forward

\* current_date += datetime.timedelta(days=days_forward); a date is held as
\* the number of days since product_creation_start
NextDate(date, days_forward) == date + days_forward

\* round(current_price * change_factor, 2), the factor in percent
ChangedPrice(current_price, change_factor) ==
    RoundDiv(current_price * change_factor, 100)

\* The loop of _generate_price_history: the histories that n more price
\* changes can make of price_history.
RECURSIVE PriceChanges(_, _)
PriceChanges(price_history, n) ==
    IF n = 0 THEN {price_history}
    ELSE LET last == price_history[Len(price_history)]
         IN  UNION {
               UNION {
                 PriceChanges(
                   Append(price_history,
                          [price |-> p,
                           date |-> NextDate(last.date, d),
                           reason |-> c.change_type]),
                   n - 1) :
                 p \in ChangedPrice(last.price, c.change_factor)} :
               d \in random.days_forward, c \in random.change}

\* _generate_price_history(base_price, product_creation_start)
generate_price_history(base_price) ==
    UNION {PriceChanges(<<[price |-> base_price, date |-> 0,
                           reason |-> "initial_listing"]>>, n) :
           n \in random.num_changes}

\* A current price taken from the first entry.
CurrentPriceFirst(price_history) == price_history[1].price

\* current_price = price_history[-1]["price"]
CurrentPrice(price_history) == price_history[Len(price_history)].price

\* A cost that adds the margin.
CostOfMarkup(current_price, profit_margin) ==
    RoundDiv(current_price * (1000 + profit_margin), 1000)

\* round(current_price * (1 - subcategory["profit_margin"]), 2)
CostOf(current_price, profit_margin) ==
    RoundDiv(current_price * (1000 - profit_margin), 1000)

generate_products ==
    /\ stage = "products"
    /\ UNCHANGED <<runs, random, inv, loader>>
    /\ Len(products) < config.NUM_PRODUCTS
    /\ IF categories = <<>>
       THEN \* random.choice(self.categories) on an empty list
            /\ Raise("IndexError")
            /\ UNCHANGED products
       ELSE /\ \E c \in 1..Len(categories) :
               \E sub \in SubcategoryChoices(c) :
               \E price \in Prices, stock \in StockDraws, active \in BOOLEAN :
               \E price_history \in generate_price_history(price) :
               \E cost \in CostOf(CurrentPrice(price_history),
                                  sub.profit_margin) :
                 products' = Append(products,
                   [product_id |-> Len(products),
                    category_id |-> categories[c].category_id,
                    subcategory_id |-> sub.subcategory_id,
                    base_price |-> CurrentPrice(price_history),
                    cost |-> cost,
                    current_stock |-> stock,
                    is_active |-> active,
                    price_history |-> price_history])
            /\ stage' = LoopStage(Len(products) + 1, config.NUM_PRODUCTS,
                                  "products")
            /\ UNCHANGED error
    /\ UNCHANGED <<config, categories, users, transactions, sessions,
                   txn_i, attempt, files, summary>>

(***************************************************************************)
(* generate_users: one iteration of the loop.                              *)
(***************************************************************************)
ActiveCategoryIds ==
    {categories[i].category_id :
        i \in {j \in 1..Len(categories) : categories[j].is_active}}

\* The sample size random.sample is called with for a drawn k.
PreferredSampleSize(k, nActive) == k

generate_users ==
    /\ stage = "users"
    /\ UNCHANGED <<runs, random, inv, loader>>
    /\ Len(users) < config.NUM_USERS
    /\ \E k \in 1..MaxPreferred :
         LET size == PreferredSampleSize(k, Cardinality(ActiveCategoryIds))
         IN  IF size > Cardinality(ActiveCategoryIds)
             THEN \* random.sample: "Sample larger than population"
                  /\ Raise("ValueError")
                  /\ UNCHANGED users
             ELSE /\ \E pref \in Samples(ActiveCategoryIds, size) :
                     \E status \in AccountStatuses :
                       users' = Append(users,
                         [user_id |-> Len(users),
                          preferred_categories |-> pref,
                          account_status |-> status,
                          total_orders |-> 0,
                          lifetime_value |-> 0])
                  /\ stage' = LoopStage(Len(users) + 1, config.NUM_USERS,
                                        "users")
                  /\ UNCHANGED error
    /\ UNCHANGED <<config, categories, products, transactions, sessions,
                   txn_i, attempt, files, summary>>

(***************************************************************************)
(* _generate_simple_transactions: one iteration of the loop.               *)
(***************************************************************************)
\* [u for u in self.users if u["account_status"] == "active"], as indices
ActiveUsers ==
    {i \in 1..Len(users) : users[i].account_status = "active"}

\* A product list that keeps the products that are not active.
AvailableProductsInactive ==
    {i \in 1..Len(products) : products[i].current_stock > 0}

\* [p for p in self.products if p["is_active"] and p["current_stock"] > 0]
AvailableProducts ==
    {i \in 1..Len(products) :
        products[i].is_active /\ products[i].current_stock > 0}

\* A skip test that is off by one.
SkipsOffByOne(available, num_items) == available + 1 < num_items

\* if len(available_products) < num_items: continue
Skips(available, num_items) == available < num_items

\* A quantity range that forgets the stock: random.randint(1, 3).
QuantityRangeNoStock(stock) == 1..MaxQuantity

\* random.randint(1, min(3, product["current_stock"]))
QuantityRange(stock) == 1..Min(MaxQuantity, stock)

\* A stock update that takes one unit whatever the quantity.
StockAfterOne(stock, quantity) == stock - 1

\* A stock update that is lost.
StockAfterLost(stock, quantity) == stock

\* product["current_stock"] -= quantity
StockAfter(stock, quantity) == stock - quantity

\* An item subtotal that forgets the quantity.
ItemSubtotalNoQuantity(quantity, unit_price) == unit_price * 100

\* item_subtotal = quantity * unit_price, unrounded (hundredths of a cent)
ItemSubtotal(quantity, unit_price) == quantity * unit_price * 100

\* round(subtotal * discount_rate, 2)
DiscountOf(subtotal, rate) == RoundCents((subtotal * rate) \div 100)

\* round(subtotal * 0.08, 2)
TaxOf(subtotal) == RoundCents((subtotal * TaxPercent) \div 100)

(***************************************************************************)
(* subtotal is a Python float, an IEEE 754 binary64: a positive float is   *)
(* the 53 bits hi * 2^26 + lo, with 2^26 <= hi < 2^27 and lo < 2^26, times *)
(* 2^exp.  An exact intermediate result carries 26 more bits in ex and a   *)
(* sticky flag for a 1 dropped below them.                                 *)
(***************************************************************************)
HalfWord == 2^26

\* x one bit to the right
ShiftRight(x) ==
    [hi |-> x.hi \div 2,
     lo |-> x.lo \div 2 + (x.hi % 2) * (HalfWord \div 2),
     ex |-> x.ex \div 2 + (x.lo % 2) * (HalfWord \div 2),
     sticky |-> x.sticky \/ x.ex % 2 = 1,
     exp |-> x.exp + 1]

RECURSIVE ShiftRightBy(_, _)
ShiftRightBy(x, n) == IF n = 0 THEN x ELSE ShiftRightBy(ShiftRight(x), n - 1)

RECURSIVE Normalise(_)
\* x with its leading 1 at bit 53
Normalise(x) ==
    IF x.hi >= 2 * HalfWord THEN Normalise(ShiftRight(x)) ELSE x

\* the float nearest to the exact result x, a tie going to the even one
RoundFloat(x) ==
    LET n == Normalise(x)
        half == HalfWord \div 2
        up == \/ n.ex > half
              \/ n.ex = half /\ (n.sticky \/ n.lo % 2 = 1)
    IN  IF ~up THEN [hi |-> n.hi, lo |-> n.lo, exp |-> n.exp]
        ELSE IF n.lo + 1 < HalfWord
        THEN [hi |-> n.hi, lo |-> n.lo + 1, exp |-> n.exp]
        ELSE IF n.hi + 1 < 2 * HalfWord
        THEN [hi |-> n.hi + 1, lo |-> 0, exp |-> n.exp]
        ELSE [hi |-> HalfWord, lo |-> 0, exp |-> n.exp + 1]

RECURSIVE DivBits(_, _, _, _)
\* n more bits of the quotient q of a long division by d with remainder r
DivBits(q, r, d, n) ==
    IF n = 0 THEN [q |-> q, r |-> r]
    ELSE IF 2 * r >= d THEN DivBits(2 * q + 1, 2 * r - d, d, n - 1)
    ELSE DivBits(2 * q, 2 * r, d, n - 1)

RECURSIVE Scaled(_, _, _)
\* n / d as a fraction in [1, 2) times 2^exp
Scaled(n, d, exp) ==
    IF n >= 2 * d THEN Scaled(n, 2 * d, exp + 1)
    ELSE IF n < d THEN Scaled(2 * n, d, exp - 1)
    ELSE [n |-> n, d |-> d, exp |-> exp]

\* the float of a decimal amount, as round(x, 2) returns it: the float
\* nearest to cents / 100
FloatOfCents(cents) ==
    LET s == Scaled(cents, 100, 0)
        hi == DivBits(1, s.n - s.d, s.d, 26)
        lo == DivBits(0, hi.r, s.d, 26)
        ex == DivBits(0, lo.r, s.d, 26)
    IN  RoundFloat([hi |-> hi.q, lo |-> lo.q, ex |-> ex.q,
                    sticky |-> ex.r # 0, exp |-> s.exp - 52])

\* quantity * unit_price for an int quantity
FloatTimes(quantity, x) ==
    RoundFloat([hi |-> quantity * x.hi + (quantity * x.lo) \div HalfWord,
                lo |-> (quantity * x.lo) % HalfWord,
                ex |-> 0, sticky |-> FALSE, exp |-> x.exp])

\* x + y
FloatAdd(x, y) ==
    LET big == IF x.exp >= y.exp THEN x ELSE y
        small == IF x.exp >= y.exp THEN y ELSE x
        s == ShiftRightBy([hi |-> small.hi, lo |-> small.lo, ex |-> 0,
                           sticky |-> FALSE, exp |-> small.exp],
                          big.exp - small.exp)
    IN  RoundFloat([hi |-> big.hi + s.hi + (big.lo + s.lo) \div HalfWord,
                    lo |-> (big.lo + s.lo) % HalfWord,
                    ex |-> s.ex, sticky |-> s.sticky, exp |-> big.exp])

\* x > y
FloatGreater(x, y) ==
    \/ x.exp > y.exp
    \/ x.exp = y.exp /\ x.hi > y.hi
    \/ x.exp = y.exp /\ x.hi = y.hi /\ x.lo > y.lo

RECURSIVE FloatSubtotal(_, _, _)
\* subtotal = 0; subtotal += quantity * unit_price for the first n items
FloatSubtotal(quantity, unit_price, n) ==
    IF n = 1 THEN FloatTimes(quantity[1], FloatOfCents(unit_price[1]))
    ELSE FloatAdd(FloatSubtotal(quantity, unit_price, n - 1),
                  FloatTimes(quantity[n], FloatOfCents(unit_price[n])))

\* subtotal > 50 for the items' float subtotal.  The float sum of at most 5
\* items is within 1e-12 of the decimal sum, so only a decimal sum of
\* exactly 50.00 needs the float.
SubtotalOver(quantity, unit_price) ==
    LET exact == SeqSum([j \in 1..Len(quantity) |->
                           quantity[j] * unit_price[j]])
    IN  IF exact # FreeShippingOver THEN exact > FreeShippingOver
        ELSE FloatGreater(
               FloatSubtotal(quantity, unit_price, Len(quantity)),
               FloatOfCents(FreeShippingOver))

\* 0 if subtotal > 50 else 9.99
ShippingOf(over) == IF over THEN 0 ELSE ShippingFee

\* round(subtotal - discount + tax + shipping, 2): subtotal is the unrounded
\* sum, discount, tax and shipping are already amounts in cents
TotalOf(subtotal, discount, tax, shipping) ==
    RoundCents(subtotal - discount * 100 + tax * 100 + shipping * 100)

\* discount = 0, or round(subtotal * discount_rate, 2) for a drawn rate
Discounts(subtotal) ==
    {0} \cup UNION {DiscountOf(subtotal, r) : r \in DiscountRates}

\* A pricing that rounds only the final total: the recorded discount and tax
\* are rounded, the total is computed from the unrounded terms.
PricingRoundedOnce(subtotal, over) ==
    UNION {
      {[discount |-> d, tax |-> t, shipping |-> ShippingOf(over),
        total |-> tt] :
          d \in (IF r = 0 THEN {0} ELSE DiscountOf(subtotal, r)),
          t \in TaxOf(subtotal),
          tt \in RoundCents(subtotal - (subtotal * r) \div 100
                            + (subtotal * TaxPercent) \div 100
                            + ShippingOf(over) * 100)} :
      r \in DiscountRates \cup {0}}

\* Lines 474-484 for an unrounded subtotal and the outcome of subtotal > 50:
\* the discount, the tax, the shipping and the total computed from them.
Pricing(subtotal, over) ==
    UNION {
      {[discount |-> d, tax |-> t, shipping |-> ShippingOf(over),
        total |-> tt] :
          tt \in TotalOf(subtotal, d, t, ShippingOf(over))} :
      d \in Discounts(subtotal), t \in TaxOf(subtotal)}

\* A user update that also writes the transaction's status to the user.
UserAfterStatus(u, status, total) ==
    [u EXCEPT !.total_orders = @ + 1, !.lifetime_value = @ + total,
              !.account_status = status]

\* A user update that takes the total off.
UserAfterRefund(u, status, total) ==
    [u EXCEPT !.total_orders = @ + 1, !.lifetime_value = @ - total]

\* A user update that leaves cancelled transactions out.
UserAfterSkipCancelled(u, status, total) ==
    IF status = "cancelled" THEN u
    ELSE [u EXCEPT !.total_orders = @ + 1, !.lifetime_value = @ + total]

\* user["total_orders"] += 1; user["lifetime_value"] += total
UserAfter(u, status, total) ==
    [u EXCEPT !.total_orders = @ + 1, !.lifetime_value = @ + total]

generate_simple_transactions ==
    /\ stage = "transactions"
    /\ UNCHANGED <<runs, random, inv, loader>>
    /\ txn_i < config.NUM_TRANSACTIONS
    /\ IF ActiveUsers = {}
       THEN \* random.choice of an empty list
            /\ Raise("IndexError")
            /\ attempt' = [num_items |-> 0, available |-> 0,
                           outcome |-> "raised"]
            /\ UNCHANGED <<products, users, transactions, txn_i>>
       ELSE \E u \in ActiveUsers, num_items \in 1..MaxItems :
            LET avail == AvailableProducts
                n == Cardinality(avail)
            IN  IF Skips(n, num_items)
                THEN /\ txn_i' = txn_i + 1
                     /\ attempt' = [num_items |-> num_items, available |-> n,
                                    outcome |-> "skipped"]
                     /\ stage' = LoopStage(txn_i + 1,
                                          config.NUM_TRANSACTIONS,
                                          "transactions")
                     /\ UNCHANGED <<error, products, users, transactions>>
                ELSE IF num_items > n
                THEN \* random.sample: "Sample larger than population"
                     /\ Raise("ValueError")
                     /\ attempt' = [num_items |-> num_items, available |-> n,
                                    outcome |-> "raised"]
                     /\ UNCHANGED <<products, users, transactions, txn_i>>
                ELSE \E sel \in Samples(avail, num_items) :
                     \E qty \in [1..num_items -> 1..MaxQuantity] :
                       /\ \A j \in 1..num_items :
                            qty[j] \in QuantityRange(
                                          products[sel[j]].current_stock)
                       /\ LET raw == [j \in 1..num_items |->
                                        ItemSubtotal(qty[j],
                                            products[sel[j]].base_price)]
                              subtotal == SeqSum(raw)
                          IN  \E isub \in [1..num_items ->
                                    UNION {RoundCents(raw[j]) :
                                             j \in 1..num_items}] :
                              \E price \in Pricing(subtotal,
                                    SubtotalOver(qty,
                                      [j \in 1..num_items |->
                                         products[sel[j]].base_price])) :
                              \E rsub \in RoundCents(subtotal) :
                              \E status \in StatusDraws :
                                /\ \A j \in 1..num_items :
                                     isub[j] \in RoundCents(raw[j])
                                /\ transactions' = Append(transactions,
                                     [user_id |-> users[u].user_id,
                                      items |-> [j \in 1..num_items |->
                                        [product_id |->
                                            products[sel[j]].product_id,
                                         quantity |-> qty[j],
                                         unit_price |->
                                            products[sel[j]].base_price,
                                         subtotal |-> isub[j]]],
                                      subtotal |-> rsub,
                                      discount |-> price.discount,
                                      tax |-> price.tax,
                                      shipping |-> price.shipping,
                                      total |-> price.total,
                                      status |-> status])
                                /\ users' = [users EXCEPT ![u] =
                                               UserAfter(@, status, price.total)]
                       /\ products' =
                            [i \in 1..Len(products) |->
                               IF \E j \in 1..num_items : sel[j] = i
                               THEN [products[i] EXCEPT !.current_stock =
                                      StockAfter(@,
                                        qty[CHOOSE j \in 1..num_items :
                                              sel[j] = i])]
                               ELSE products[i]]
                       /\ txn_i' = txn_i + 1
                       /\ attempt' = [num_items |-> num_items,
                                      available |-> n,
                                      outcome |-> "appended"]
                       /\ stage' = LoopStage(txn_i + 1,
                                            config.NUM_TRANSACTIONS,
                                            "transactions")
                       /\ UNCHANGED error
    /\ UNCHANGED <<config, categories, sessions, files, summary>>

(***************************************************************************)
(* _generate_simple_sessions: one iteration of the loop.                   *)
(* Of a session's fields the model keeps user_id and products_viewed.      *)
(***************************************************************************)
\* A pool of all the products.
ViewPoolIdsAll == {products[i].product_id : i \in 1..Len(products)}

\* [p["product_id"] for p in self.products[:100]]
ViewPoolIds ==
    {products[i].product_id : i \in 1..Min(ViewPool, Len(products))}

generate_simple_sessions ==
    /\ stage = "sessions"
    /\ UNCHANGED <<runs, random, inv, loader>>
    /\ Len(sessions) < config.NUM_SESSIONS
    /\ IF users = <<>>
       THEN \* random.choice(self.users) on an empty list
            /\ Raise("IndexError")
            /\ UNCHANGED sessions
       ELSE \E u \in 1..Len(users), k \in 0..MaxViewed :
              IF k > Cardinality(ViewPoolIds)
              THEN \* random.sample: "Sample larger than population"
                   /\ Raise("ValueError")
                   /\ UNCHANGED sessions
              ELSE /\ \E viewed \in Samples(ViewPoolIds \cap random.viewed,
                                              k) :
                        sessions' = Append(sessions,
                          [user_id |-> users[u].user_id,
                           products_viewed |-> viewed])
                   /\ stage' = LoopStage(Len(sessions) + 1,
                                         config.NUM_SESSIONS, "sessions")
                   /\ UNCHANGED error
    /\ UNCHANGED <<config, categories, products, users, transactions,
                   txn_i, attempt, files, summary>>

(***************************************************************************)
(* save_data: the four collection files, then the session chunks.  Any     *)
(* write may fail with an OSError, leaving the chunks written before it.   *)
(* files maps the number in a chunk file's name, sessions_{number:03d},    *)
(* to the sessions written to that file.                                   *)
(***************************************************************************)
\* range(0, len(self.sessions), chunk_size) for chunk_size >= 1
ChunkStarts(chunk_size) ==
    {i \in 0..(Len(sessions) - 1) : i % chunk_size = 0}

\* A slice that is one session short.
SliceShort(i, chunk_size) ==
    SubSeq(sessions, i + 1, Min(i + chunk_size, Len(sessions)) - 1)

\* self.sessions[i:i+chunk_size]
Slice(i, chunk_size) ==
    SubSeq(sessions, i + 1, Min(i + chunk_size, Len(sessions)))

\* The files the loop writes for the start indices in starts: the file
\* numbered i // chunk_size holds the slice that starts at i.
ChunkFiles(starts, chunk_size) ==
    [number \in {i \div chunk_size : i \in starts} |->
        Slice(CHOOSE i \in starts : i \div chunk_size = number, chunk_size)]

save_data ==
    /\ stage = "save"
    /\ UNCHANGED <<runs, random, inv, loader>>
    /\ LET size == config.CHUNK_SIZE
           starts == ChunkStarts(size)
       IN  \/ /\ files' = ChunkFiles(starts, size)
              /\ stage' = "summary"
              /\ UNCHANGED error
           \/ \E failed \in starts \cup {0} :
              \* the write of a collection file or of the chunk at `failed`
              /\ files' = ChunkFiles({i \in starts : i < failed}, size)
              /\ Raise("OSError")
    /\ UNCHANGED <<config, categories, products, users, transactions,
                   sessions, txn_i, attempt, summary>>

(***************************************************************************)
(* _generate_summary, called at the end of save_data.                      *)
(* conversion_rate is held in hundredths of a percent, the average         *)
(* transaction value in cents.                                             *)
(***************************************************************************)
TotalRevenue ==
    SeqSum([i \in 1..Len(transactions) |-> transactions[i].total])

\* round(total_revenue / len(self.transactions), 2) if self.transactions else 0
AverageTransaction ==
    IF transactions = <<>> THEN {0}
    ELSE RoundDiv(TotalRevenue, Len(transactions))

\* A conversion rate that is left a fraction.
ConversionRateFraction ==
    IF sessions = <<>> THEN {0}
    ELSE RoundDiv(Len(transactions) * 100, Len(sessions))

\* round(len(self.transactions) / len(self.sessions) * 100, 2), else 0
ConversionRate ==
    IF sessions = <<>> THEN {0}
    ELSE RoundDiv(Len(transactions) * 10000, Len(sessions))

generate_summary ==
    /\ stage = "summary"
    /\ UNCHANGED <<runs, random, inv, loader>>
    /\ IF products = <<>>
       THEN \* sum(ratings) / len(self.products)
            /\ Raise("ZeroDivisionError")
            /\ UNCHANGED summary
       ELSE \/ \E avg \in AverageTransaction, rate \in ConversionRate :
               /\ summary' = <<
                    [categories |-> Len(categories),
                     products |-> Len(products),
                     users |-> Len(users),
                     sessions |-> Len(sessions),
                     transactions |-> Len(transactions),
                     total_records |-> Len(categories) + Len(products)
                        + Len(users) + Len(sessions) + Len(transactions),
                     total_revenue |-> TotalRevenue,
                     average_transaction_value |-> avg,
                     conversion_rate |-> rate] >>
               /\ stage' = "done"
               /\ UNCHANGED error
            \/ /\ Raise("OSError")
               /\ UNCHANGED summary
    /\ UNCHANGED <<config, categories, products, users, transactions,
                   sessions, txn_i, attempt, files>>

(***************************************************************************)
(* generate_all from construction, for every small configuration.          *)
(***************************************************************************)
Configs ==
    [NUM_CATEGORIES : 0..MaxCategories, NUM_PRODUCTS : 0..MaxCount,
     NUM_USERS : 0..MaxCount, NUM_TRANSACTIONS : 0..MaxCount,
     NUM_SESSIONS : 0..MaxCount, CHUNK_SIZE : {1}]

Init ==
    /\ config \in Configs
    /\ stage = "categories"
    /\ error = "none"
    /\ categories = <<>>
    /\ products = <<>>
    /\ users = <<>>
    /\ transactions = <<>>
    /\ sessions = <<>>
    /\ txn_i = 0
    /\ attempt = NoAttempt
    /\ files = <<>>
    /\ summary = NoSummary
    /\ runs = NoRuns
    /\ random = PlainDraws
    /\ inv = NoInventory
    /\ loader = NoLoader

Next ==
    \/ generate_categories
    \/ generate_products
    \/ generate_users
    \/ generate_simple_transactions
    \/ generate_simple_sessions
    \/ save_data
    \/ generate_summary

Spec == Init /\ [][Next]_vars

(***************************************************************************)
(* The transaction stage on its own, from states generate_categories,      *)
(* generate_products and generate_users leave behind: one category, a      *)
(* cheap product with any drawn stock and a dear one with at most one      *)
(* unit, and three users of which the second is not active.                *)
(***************************************************************************)
TxnConfig ==
    [NUM_CATEGORIES |-> 1, NUM_PRODUCTS |-> 2, NUM_USERS |-> 3,
     NUM_TRANSACTIONS |-> TxnAttempts, NUM_SESSIONS |-> 0, CHUNK_SIZE |-> 1]

TxnCategories ==
    <<[category_id |-> 0, is_active |-> TRUE,
       subcategories |->
         Subcategories(0, [s \in 1..NumSubcategories |-> 200])]>>

\* a product of subcategory <<0, id>>, whose margin is 0.2, never repriced
TxnProduct(id, price, stock, active) ==
    [product_id |-> id, category_id |-> 0, subcategory_id |-> <<0, id>>,
     base_price |-> price, cost |-> (price * 4) \div 5,
     current_stock |-> stock, is_active |-> active,
     price_history |-> <<[price |-> price, date |-> 0,
                          reason |-> "initial_listing"]>>]

TxnProducts ==
    {<<TxnProduct(0, 305, s1, a1), TxnProduct(1, 5000, s2, a2)>> :
        s1 \in StockDraws, s2 \in {0, 1}, a1 \in BOOLEAN, a2 \in BOOLEAN}

TxnUser(id, status) ==
    [user_id |-> id, preferred_categories |-> <<0>>,
     account_status |-> status, total_orders |-> 0, lifetime_value |-> 0]

TxnUsers ==
    {<<TxnUser(0, "active"), TxnUser(1, "inactive"), TxnUser(2, "active")>>}

InitTxn ==
    /\ config = TxnConfig
    /\ stage = "transactions"
    /\ error = "none"
    /\ categories = TxnCategories
    /\ products \in TxnProducts
    /\ users \in TxnUsers
    /\ transactions = <<>>
    /\ sessions = <<>>
    /\ txn_i = 0
    /\ attempt = NoAttempt
    /\ files = <<>>
    /\ summary = NoSummary
    /\ runs = NoRuns
    /\ random = PlainDraws
    /\ inv = NoInventory
    /\ loader = NoLoader

NextTxn == generate_simple_transactions

SpecTxn == InitTxn /\ [][NextTxn]_vars

(***************************************************************************)
(* One iteration of the transaction stage over three products whose        *)
(* prices add up to 50.00 in several ways: 3.35 + 3 * 15.55, and 50.00     *)
(* alone.                                                                  *)
(***************************************************************************)
ShipConfig ==
    [NUM_CATEGORIES |-> 1, NUM_PRODUCTS |-> 3, NUM_USERS |-> 1,
     NUM_TRANSACTIONS |-> 1, NUM_SESSIONS |-> 0, CHUNK_SIZE |-> 1]

ShipProducts ==
    <<TxnProduct(0, 335, 1, TRUE), TxnProduct(1, 1555, 3, TRUE),
      TxnProduct(2, 5000, 1, TRUE)>>

InitShip ==
    /\ config = ShipConfig
    /\ stage = "transactions"
    /\ error = "none"
    /\ categories = TxnCategories
    /\ products = ShipProducts
    /\ users = <<TxnUser(0, "active")>>
    /\ transactions = <<>>
    /\ sessions = <<>>
    /\ txn_i = 0
    /\ attempt = NoAttempt
    /\ files = <<>>
    /\ summary = NoSummary
    /\ runs = NoRuns
    /\ random = PlainDraws
    /\ inv = NoInventory
    /\ loader = NoLoader

NextShip == generate_simple_transactions

SpecShip == InitShip /\ [][NextShip]_vars

(***************************************************************************)
(* The end of generate_all, from generate_users on: one user, two units    *)
(* of one product to sell, then up to MaxSessions sessions, saved in       *)
(* chunks of up to MaxChunkSize, and the summary.                          *)
(***************************************************************************)
MaxSessions == 3     \* NUM_SESSIONS is in 0..MaxSessions
MaxChunkSize == 2    \* CHUNK_SIZE is in 1..MaxChunkSize

TailConfigs ==
    [NUM_CATEGORIES : {1}, NUM_PRODUCTS : {2}, NUM_USERS : {1},
     NUM_TRANSACTIONS : {TxnAttempts}, NUM_SESSIONS : 0..MaxSessions,
     CHUNK_SIZE : 1..MaxChunkSize]

\* the products as generate_products left them
TailProducts ==
    <<TxnProduct(0, 305, 2, TRUE), TxnProduct(1, 5000, 0, TRUE)>>

InitTail ==
    /\ config \in TailConfigs
    /\ stage = "users"
    /\ error = "none"
    /\ categories = TxnCategories
    /\ products = TailProducts
    /\ users = <<>>
    /\ transactions = <<>>
    /\ sessions = <<>>
    /\ txn_i = 0
    /\ attempt = NoAttempt
    /\ files = <<>>
    /\ summary = NoSummary
    /\ runs = NoRuns
    /\ random = [PlainDraws EXCEPT !.viewed = {0}]
    /\ inv = NoInventory
    /\ loader = NoLoader

NextTail ==
    \/ generate_users
    \/ generate_simple_transactions
    \/ generate_simple_sessions
    \/ save_data
    \/ generate_summary

SpecTail == InitTail /\ [][NextTail]_vars

(***************************************************************************)
(* One product, one user and one transaction, from a state                 *)
(* generate_categories leaves behind: one category whose subcategories     *)
(* have the smallest and the largest profit margin in turn.  The product's *)
(* price history takes every number of changes, each at either end of its  *)
(* ranges.                                                                 *)
(***************************************************************************)
ProdConfig ==
    [NUM_CATEGORIES |-> 1, NUM_PRODUCTS |-> 1, NUM_USERS |-> 1,
     NUM_TRANSACTIONS |-> 1, NUM_SESSIONS |-> 0, CHUNK_SIZE |-> 1]

ProdCategories ==
    <<[category_id |-> 0, is_active |-> TRUE,
       subcategories |->
         Subcategories(0, [s \in 1..NumSubcategories |->
                             IF s % 2 = 1 THEN MinProfitMargin
                             ELSE MaxProfitMargin])]>>

InitProd ==
    /\ config = ProdConfig
    /\ stage = "products"
    /\ error = "none"
    /\ categories = ProdCategories
    /\ products = <<>>
    /\ users = <<>>
    /\ transactions = <<>>
    /\ sessions = <<>>
    /\ txn_i = 0
    /\ attempt = NoAttempt
    /\ files = <<>>
    /\ summary = NoSummary
    /\ runs = NoRuns
    /\ random = PriceDraws
    /\ inv = NoInventory
    /\ loader = NoLoader

NextProd ==
    \/ generate_products
    \/ generate_users
    \/ generate_simple_transactions

SpecProd == InitProd /\ [][NextProd]_vars

(***************************************************************************)
(* One session over 101 products, one more than self.products[:100]        *)
(* keeps.  The sample of viewed products is taken among the first three    *)
(* products, the last two of the first 100 and the one after them.         *)
(***************************************************************************)
SessConfig ==
    [NUM_CATEGORIES |-> 1, NUM_PRODUCTS |-> ViewPool + 1, NUM_USERS |-> 1,
     NUM_TRANSACTIONS |-> 0, NUM_SESSIONS |-> 1, CHUNK_SIZE |-> 1]

\* a product of category 0 that is not for sale
SessProduct(id) ==
    [TxnProduct(id, 305, 0, FALSE) EXCEPT
        !.subcategory_id = <<0, id % NumSubcategories>>]

InitSess ==
    /\ config = SessConfig
    /\ stage = "sessions"
    /\ error = "none"
    /\ categories = TxnCategories
    /\ products = [i \in 1..(ViewPool + 1) |-> SessProduct(i - 1)]
    /\ users = <<TxnUser(0, "active")>>
    /\ transactions = <<>>
    /\ sessions = <<>>
    /\ txn_i = 0
    /\ attempt = NoAttempt
    /\ files = <<>>
    /\ summary = NoSummary
    /\ runs = NoRuns
    /\ random = [PlainDraws EXCEPT
                   !.viewed = {0, 1, 2, ViewPool - 2, ViewPool - 1, ViewPool}]
    /\ inv = NoInventory
    /\ loader = NoLoader

NextSess == generate_simple_sessions

SpecSess == InitSess /\ [][NextSess]_vars

(***************************************************************************)
(* generate_categories on its own, for every NUM_CATEGORIES up to          *)
(* MaxConfigured, which is past the end of the taxonomy, and for the       *)
(* default of 25; nothing else is generated.                               *)
(***************************************************************************)
MaxConfigured == 11          \* NUM_CATEGORIES is in 0..MaxConfigured, or 25
DefaultCategories == 25      \* 'NUM_CATEGORIES': 25

CatConfigs ==
    [NUM_CATEGORIES : (0..MaxConfigured) \cup {DefaultCategories},
     NUM_PRODUCTS : {0}, NUM_USERS : {0}, NUM_TRANSACTIONS : {0},
     NUM_SESSIONS : {0}, CHUNK_SIZE : {1}]

InitCat ==
    /\ config \in CatConfigs
    /\ stage = "categories"
    /\ error = "none"
    /\ categories = <<>>
    /\ products = <<>>
    /\ users = <<>>
    /\ transactions = <<>>
    /\ sessions = <<>>
    /\ txn_i = 0
    /\ attempt = NoAttempt
    /\ files = <<>>
    /\ summary = NoSummary
    /\ runs = NoRuns
    /\ random = PlainDraws
    /\ inv = NoInventory
    /\ loader = NoLoader

NextCat == generate_categories

SpecCat == InitCat /\ [][NextCat]_vars

(***************************************************************************)
(* Two independent runs of the generator with the same seed.               *)
(*                                                                         *)
(* __init__ seeds random, numpy and Faker with 42, so the k-th seeded draw *)
(* of a run is the k-th value of one fixed stream, the same in every run.  *)
(* uuid.uuid4() and datetime.datetime.now() are not seeded: each run gets  *)
(* its own values.  A run here appends transactions (the user is a seeded  *)
(* draw, the transaction_id comes from uuid4) and then writes its          *)
(* summary, stamped with the clock.                                        *)
(***************************************************************************)
RunsLen == 2                 \* NUM_TRANSACTIONS of the two runs
RunNames == {"A", "B"}
SeededValues == {0, 1}       \* what a seeded draw can give
Uuids == {"id0", "id1"}      \* what uuid.uuid4().hex[:12] can give
Clocks == {0, 1}             \* what datetime.datetime.now() can give

\* the stream of a generator seeded with 42: fixed, and unknown to the model
SeededStreams == [1..RunsLen -> SeededValues]

NewRun(clock) ==
    [clock |-> clock, transactions |-> <<>>, summary |-> NoSummary]

InitRuns ==
    /\ config = TxnConfig
    /\ stage = "done"
    /\ error = "none"
    /\ categories = <<>>
    /\ products = <<>>
    /\ users = <<>>
    /\ transactions = <<>>
    /\ sessions = <<>>
    /\ txn_i = 0
    /\ attempt = NoAttempt
    /\ files = <<>>
    /\ summary = NoSummary
    /\ \E stream \in SeededStreams, ca \in Clocks, cb \in Clocks :
         runs = [seeded |-> stream, A |-> NewRun(ca), B |-> NewRun(cb)]
    /\ random = PlainDraws
    /\ inv = NoInventory
    /\ loader = NoLoader

\* one iteration of the transaction loop in run r
run_transaction(r) ==
    /\ runs[r].summary = NoSummary
    /\ Len(runs[r].transactions) < RunsLen
    /\ \E id \in Uuids :
         runs' = [runs EXCEPT ![r].transactions =
                    Append(@, [transaction_id |-> id,
                               user_id |-> runs.seeded[Len(@) + 1]])]
    /\ UNCHANGED <<config, stage, error, categories, products, users,
                   transactions, sessions, txn_i, attempt, files, summary,
                   random, inv, loader>>

\* the summary of run r: generation_metadata.timestamp and the volumes
run_summary(r) ==
    /\ runs[r].summary = NoSummary
    /\ Len(runs[r].transactions) = RunsLen
    /\ runs' = [runs EXCEPT ![r].summary =
                  <<[timestamp |-> runs[r].clock,
                     transactions |-> Len(runs[r].transactions)]>>]
    /\ UNCHANGED <<config, stage, error, categories, products, users,
                   transactions, sessions, txn_i, attempt, files, summary,
                   random, inv, loader>>

NextRuns ==
    \E r \in RunNames :
        \/ run_transaction(r)
        \/ run_summary(r)

SpecRuns == InitRuns /\ [][NextRuns]_vars

(***************************************************************************)
(* InventoryManager: NumThreads threads call update_stock, up to           *)
(* CallsPerThread times each, one action per line of the method.           *)
(* self.products holds the generator's product dicts themselves, so the    *)
(* stock update_stock changes is the one in `products`.                    *)
(***************************************************************************)
NumThreads == 2      \* threads calling update_stock
CallsPerThread == 1  \* calls a thread makes
MaxRequest == 1      \* largest quantity asked for, and largest initial stock

Threads == 1..NumThreads

\* a thread outside update_stock; before and after are the stock its last
\* call found when it got the lock and left when it returned, taken the
\* quantities of its calls that returned True, product by product
IdleThread ==
    [pc |-> "idle", product_id |-> 0, quantity |-> 0, before |-> 0,
     after |-> 0, result |-> "none", calls |-> 0,
     taken |-> [i \in 1..Len(products) |-> 0]]

\* self.products = {p["product_id"]: p for p in products}, as positions
KnownProducts(product_id) ==
    {i \in 1..Len(products) : products[i].product_id = product_id}

\* the stock of product_id, 0 when it is not in self.products
StockOf(product_id) ==
    IF KnownProducts(product_id) = {} THEN 0
    ELSE products[CHOOSE i \in KnownProducts(product_id) : TRUE].current_stock

\* A lock that lets every thread in.
AcquirableAlways(t) == TRUE

\* with self.lock: an RLock is free or held by the thread itself
Acquirable(t) == inv.lock \in {0, t}

\* leaving the with block: the result is returned and the lock released
Return(t, result) ==
    /\ inv' = [inv EXCEPT
                !.lock = 0,
                !.thread[t] =
                  [@ EXCEPT
                     !.pc = "idle", !.result = result,
                     !.after = StockOf(inv.thread[t].product_id),
                     !.taken = [i \in DOMAIN @ |->
                                  IF /\ result = "True"
                                     /\ i \in KnownProducts(
                                                 inv.thread[t].product_id)
                                  THEN @[i] + inv.thread[t].quantity
                                  ELSE @[i]]]]
    /\ UNCHANGED products

InventoryFrame ==
    UNCHANGED <<config, stage, error, categories, users, transactions,
                sessions, txn_i, attempt, files, summary, runs, random,
                loader>>

\* a thread calls update_stock(product_id, quantity)
update_stock_call(t) ==
    /\ inv.thread[t].pc = "idle"
    /\ inv.thread[t].calls < CallsPerThread
    /\ \E product_id \in 0..Len(products), quantity \in 0..MaxRequest :
         inv' = [inv EXCEPT !.thread[t] =
                   [@ EXCEPT !.pc = "lock", !.product_id = product_id,
                             !.quantity = quantity, !.result = "none",
                             !.calls = @ + 1]]
    /\ UNCHANGED products
    /\ InventoryFrame

\* with self.lock:
update_stock_lock(t) ==
    /\ inv.thread[t].pc = "lock"
    /\ Acquirable(t)
    /\ inv' = [inv EXCEPT
                !.lock = t,
                !.thread[t] = [@ EXCEPT !.pc = "member",
                                        !.before = StockOf(inv.thread[t].product_id)]]
    /\ UNCHANGED products
    /\ InventoryFrame

\* if product_id not in self.products: return False
update_stock_member(t) ==
    /\ inv.thread[t].pc = "member"
    /\ IF KnownProducts(inv.thread[t].product_id) = {}
       THEN Return(t, "False")
       ELSE /\ inv' = [inv EXCEPT !.thread[t].pc = "check"]
            /\ UNCHANGED products
    /\ InventoryFrame

\* if self.products[product_id]["current_stock"] >= quantity: ... return False
update_stock_check(t) ==
    /\ inv.thread[t].pc = "check"
    /\ IF StockOf(inv.thread[t].product_id) >= inv.thread[t].quantity
       THEN /\ inv' = [inv EXCEPT !.thread[t].pc = "decrement"]
            /\ UNCHANGED products
       ELSE Return(t, "False")
    /\ InventoryFrame

\* self.products[product_id]["current_stock"] -= quantity
update_stock_decrement(t) ==
    /\ inv.thread[t].pc = "decrement"
    /\ products' = [i \in 1..Len(products) |->
                      IF i \in KnownProducts(inv.thread[t].product_id)
                      THEN [products[i] EXCEPT !.current_stock =
                              @ - inv.thread[t].quantity]
                      ELSE products[i]]
    /\ inv' = [inv EXCEPT !.thread[t].pc = "return"]
    /\ InventoryFrame

\* return True
update_stock_return(t) ==
    /\ inv.thread[t].pc = "return"
    /\ Return(t, "True")
    /\ InventoryFrame

\* InventoryManager(products) over one generated product
InitInv ==
    /\ config = [TxnConfig EXCEPT !.NUM_PRODUCTS = 1, !.NUM_USERS = 0,
                                  !.NUM_TRANSACTIONS = 0]
    /\ stage = "done"
    /\ error = "none"
    /\ categories = TxnCategories
    /\ \E stock \in 0..MaxRequest :
         products = <<TxnProduct(0, 305, stock, TRUE)>>
    /\ users = <<>>
    /\ transactions = <<>>
    /\ sessions = <<>>
    /\ txn_i = 0
    /\ attempt = NoAttempt
    /\ files = <<>>
    /\ summary = NoSummary
    /\ runs = NoRuns
    /\ random = PlainDraws
    /\ inv = [lock |-> 0,
              initial |-> [i \in 1..Len(products) |->
                             products[i].current_stock],
              thread |-> [t \in Threads |-> IdleThread]]
    /\ loader = NoLoader

NextInv ==
    \E t \in Threads :
        \/ update_stock_call(t)
        \/ update_stock_lock(t)
        \/ update_stock_member(t)
        \/ update_stock_check(t)
        \/ update_stock_decrement(t)
        \/ update_stock_return(t)

SpecInv == InitInv /\ [][NextInv]_vars

(***************************************************************************)
(* The loaders of the session files: HBaseSessionLoader ("hbase",          *)
(* load_session_data.py), HBaseShellLoader ("shell",                       *)
(* load_session_data_shell.py) and MongoDBSetup ("mongo",                  *)
(* setup_and_load.py).  A loader runs once the generator has ended and     *)
(* reads the chunk files it left.  Opening or parsing a file, a batch      *)
(* write and every HBase call may fail; a run meets at most MaxFaults      *)
(* failures.  One action per stage, per file opened and per batch sent.    *)
(***************************************************************************)
MaxFaults == 1       \* failures one loader run meets

Loaders == {"hbase", "shell", "mongo"}

GeneratorEnded == stage \in {"done", "failed"}

CanFail == loader.faults < MaxFaults

Fault(l) == [l EXCEPT !.faults = @ + 1]

LoaderFrame ==
    UNCHANGED <<config, stage, error, categories, products, users,
                transactions, sessions, txn_i, attempt, files, summary, runs,
                random, inv>>

\* session.get(field, default)
Get(session, field, default) ==
    IF field \in DOMAIN session THEN session[field] ELSE default

\* _convert_session_to_hbase_format and _convert_session_to_hbase_commands:
\* the columns of a session's row that the model follows.  MongoDB stores
\* the session document as it is.
Row(kind, session) ==
    IF kind = "mongo" THEN session
    ELSE [user_id |-> Get(session, "user_id", "unknown"),
          products_viewed |-> Len(Get(session, "viewed_products", <<>>))]

\* the put commands of one session
PutCommands(session) ==
    5 + 3 + 1 + (IF Get(session, "page_views", <<>>) # <<>> THEN 2 ELSE 0) + 2

RECURSIVE ShellBatchEnd(_, _, _)
\* the session at which the shell loader executes its batch: the first at
\* which len(batch_commands) >= batch_size, or the last of the file
ShellBatchEnd(data, at, commands) ==
    IF at = Len(data) \/ commands + PutCommands(data[at]) >= ShellBatchSize
    THEN at
    ELSE ShellBatchEnd(data, at + 1, commands + PutCommands(data[at]))

\* A batch that is written when it holds more than batch_size rows.
BatchEndOver(kind, data, pos) ==
    CASE kind = "hbase" -> Min(pos + BatchSize + 1, Len(data))
      [] kind = "shell" -> ShellBatchEnd(data, pos + 1, 0)
      [] kind = "mongo" -> Min(pos + MongoBatchSize, Len(data))

\* the last session of the batch that starts after session pos of data:
\* if len(batch_data) >= batch_size, and what remains after the loop; the
\* shell loader counts commands; sessions_data[i:i + batch_size]
BatchEnd(kind, data, pos) ==
    CASE kind = "hbase" -> Min(pos + BatchSize, Len(data))
      [] kind = "shell" -> ShellBatchEnd(data, pos + 1, 0)
      [] kind = "mongo" -> Min(pos + MongoBatchSize, Len(data))

\* A search that takes every session file there is.
WindowFilesAll == DOMAIN files

\* for i in range(20): if os.path.exists(sessions_{i:03d}.json)
WindowFiles == {number \in DOMAIN files : number < FileWindow}

RECURSIVE Ascending(_)
\* the numbers of S in ascending order
Ascending(S) ==
    IF S = {} THEN <<>>
    ELSE LET least == CHOOSE x \in S : \A y \in S : x <= y
         IN  <<least>> \o Ascending(S \ {least})

\* A finally clause that does not close.
ClosedNever(connection) == connection

\* finally: if self.connection: self.connection.close()
Closed(connection) == IF connection = "open" THEN "closed" ELSE connection

\* run_complete_loading returns
RunReturns(l, result) ==
    [l EXCEPT !.pc = "returned", !.result = result,
              !.connection = Closed(@)]

\* a stage of run_complete_loading has ended
Stage(l, name, ok) ==
    [l EXCEPT !.stages = Append(@, [name |-> name, ok |-> ok])]

\* the end of the loop over session_files: load_session_files returns
\* total_sessions_loaded > 0, load_all_session_data returns
\* total_sessions_processed > 0, _load_sessions_files goes on to its indexes
LoopEnd(l) ==
    CASE l.kind = "hbase" ->
           IF l.total > 0
           THEN [Stage(l, "load_session_files", TRUE) EXCEPT
                   !.pc = "load_product_interaction_data"]
           ELSE RunReturns(Stage(l, "load_session_files", FALSE), "False")
      [] l.kind = "shell" ->
           [l EXCEPT !.pc = "returned",
                     !.result = IF l.total > 0 THEN "True" ELSE "False"]
      [] l.kind = "mongo" ->
           [l EXCEPT !.pc = "returned", !.result = "None"]

\* A loop that a failure ends.
AfterFailureAborts(l) == LoopEnd(l)

\* for file_path in session_files: the next file, or the end of the loop
NextFile(l) ==
    IF l.file < Len(l.session_files)
    THEN [l EXCEPT !.file = @ + 1, !.pos = 0, !.pc = "open"]
    ELSE LoopEnd(l)

\* except Exception: log, continue
AfterFailure(l) == NextFile(l)

\* with open(file_path) as f: sessions_data = json.load(f)
OpenFile ==
    /\ loader.pc = "open"
    /\ LET f == loader.session_files[loader.file]
           l == [loader EXCEPT !.attempted = @ \cup {f}]
       IN  \/ loader' = IF files[f] = <<>> THEN NextFile(l)
                        ELSE [l EXCEPT !.pc = "write"]
           \/ /\ CanFail
              /\ loader' = AfterFailure(Fault([l EXCEPT !.unread = @ \cup {f}]))
    /\ LoaderFrame

\* the next batch of the file is sent.  When the write fails,
\* load_session_files leaves the file, the other two loaders go on with the
\* sessions after the batch; the shell loader counts every session it
\* processes, the other two the sessions of the batches written.
WriteBatch ==
    /\ loader.pc = "write"
    /\ LET kind == loader.kind
           f == loader.session_files[loader.file]
           data == files[f]
           to == BatchEnd(kind, data, loader.pos)
           sent(ok) ==
             [file |-> f, from |-> loader.pos + 1, to |-> to, ok |-> ok,
              rows |-> [j \in 1..(to - loader.pos) |->
                          Row(kind, data[loader.pos + j])]]
           next(l) == IF to = Len(data) THEN NextFile(l) ELSE l
       IN  \/ loader' = next([loader EXCEPT
                                !.batches = Append(@, sent(TRUE)),
                                !.total = @ + (to - loader.pos),
                                !.pos = to])
           \/ /\ CanFail
              /\ loader' =
                   LET l == Fault([loader EXCEPT
                                     !.batches = Append(@, sent(FALSE))])
                   IN  CASE kind = "hbase" -> AfterFailure(l)
                         [] kind = "shell" ->
                              next([l EXCEPT !.total = @ + (to - loader.pos),
                                             !.pos = to])
                         [] kind = "mongo" -> next([l EXCEPT !.pos = to])
    /\ LoaderFrame

\* HBaseSessionLoader.connect: happybase.Connection(...) or the tables()
\* call after it may raise
connect ==
    /\ loader.kind = "hbase"
    /\ loader.pc = "connect"
    /\ GeneratorEnded
    /\ \/ loader' = [Stage(loader, "connect", TRUE) EXCEPT
                       !.connection = "open", !.pc = "verify_tables"]
       \/ /\ CanFail
          /\ \E established \in {"none", "open"} :
               loader' = RunReturns(
                   [Fault(Stage(loader, "connect", FALSE)) EXCEPT
                      !.connection = established], "False")
    /\ LoaderFrame

\* HBaseSessionLoader.verify_tables: a table is missing or tables() raises
verify_tables ==
    /\ loader.kind = "hbase"
    /\ loader.pc = "verify_tables"
    /\ \/ loader' = [Stage(loader, "verify_tables", TRUE) EXCEPT
                       !.pc = "load_session_files"]
       \/ /\ CanFail
          /\ loader' = RunReturns(
                 Fault(Stage(loader, "verify_tables", FALSE)), "False")
    /\ LoaderFrame

\* HBaseSessionLoader.load_session_files up to its loop
load_session_files ==
    /\ loader.kind = "hbase"
    /\ loader.pc = "load_session_files"
    /\ LoaderFrame
    /\ IF WindowFiles = {}
       THEN loader' = RunReturns(
                Stage(loader, "load_session_files", FALSE), "False")
       ELSE \/ loader' = NextFile([loader EXCEPT
                            !.session_files = Ascending(WindowFiles)])
            \/ \* self.connection.table('user_sessions') raises
               /\ CanFail
               /\ loader' = RunReturns(
                      Fault(Stage(loader, "load_session_files", FALSE)),
                      "False")

load_session_files_open ==
    /\ loader.kind = "hbase"
    /\ OpenFile

load_session_files_write ==
    /\ loader.kind = "hbase"
    /\ WriteBatch

\* the product views gathered from the first 5 session files
ProductViews ==
    LET read == {number \in DOMAIN files : number < InteractionFiles}
        count(number) ==
          SeqSum([i \in 1..Len(files[number]) |->
                    Len(Get(files[number][i], "viewed_products", <<>>))])
    IN  SeqSum([i \in 1..Cardinality(read) |-> count(Ascending(read)[i])])

\* HBaseSessionLoader.load_product_interaction_data, whose except clause
\* logs and returns
load_product_interaction_data ==
    /\ loader.kind = "hbase"
    /\ loader.pc = "load_product_interaction_data"
    /\ \/ loader' = [Stage(loader, "load_product_interaction_data", TRUE)
                       EXCEPT !.pc = "verify_data_loading",
                              !.views = ProductViews]
       \/ /\ CanFail
          /\ loader' = [Fault(Stage(loader, "load_product_interaction_data",
                                    FALSE))
                          EXCEPT !.pc = "verify_data_loading"]
    /\ LoaderFrame

\* HBaseSessionLoader.verify_data_loading and the end of the run
verify_data_loading ==
    /\ loader.kind = "hbase"
    /\ loader.pc = "verify_data_loading"
    /\ \/ loader' = RunReturns(Stage(loader, "verify_data_loading", TRUE),
                               "True")
       \/ /\ CanFail
          /\ loader' = RunReturns(
                 Fault(Stage(loader, "verify_data_loading", FALSE)), "False")
    /\ LoaderFrame

\* HBaseShellLoader.load_all_session_data up to its loop
load_all_session_data ==
    /\ loader.kind = "shell"
    /\ loader.pc = "find_files"
    /\ GeneratorEnded
    /\ LoaderFrame
    /\ loader' = IF WindowFiles = {}
                 THEN [loader EXCEPT !.pc = "returned", !.result = "False"]
                 ELSE NextFile([loader EXCEPT
                                  !.session_files = Ascending(WindowFiles)])

load_all_session_data_open ==
    /\ loader.kind = "shell"
    /\ OpenFile

load_all_session_data_write ==
    /\ loader.kind = "shell"
    /\ WriteBatch

\* MongoDBSetup._load_sessions_files up to its loop
load_sessions_files ==
    /\ loader.kind = "mongo"
    /\ loader.pc = "find_files"
    /\ GeneratorEnded
    /\ LoaderFrame
    /\ loader' = NextFile([loader EXCEPT
                             !.session_files = Ascending(WindowFiles)])

load_sessions_files_open ==
    /\ loader.kind = "mongo"
    /\ OpenFile

load_sessions_files_write ==
    /\ loader.kind = "mongo"
    /\ WriteBatch

HBaseLoader ==
    \/ connect
    \/ verify_tables
    \/ load_session_files
    \/ load_session_files_open
    \/ load_session_files_write
    \/ load_product_interaction_data
    \/ verify_data_loading

ShellLoader ==
    \/ load_all_session_data
    \/ load_all_session_data_open
    \/ load_all_session_data_write

MongoLoader ==
    \/ load_sessions_files
    \/ load_sessions_files_open
    \/ load_sessions_files_write

(***************************************************************************)
(* The session stage of the generator over two products and one user,      *)
(* save_data and the summary, then one of the loaders.                     *)
(***************************************************************************)
MaxLoadSessions == 2  \* NUM_SESSIONS is in 0..MaxLoadSessions

LoadConfigs ==
    [NUM_CATEGORIES : {1}, NUM_PRODUCTS : {2}, NUM_USERS : {1},
     NUM_TRANSACTIONS : {0}, NUM_SESSIONS : 0..MaxLoadSessions,
     CHUNK_SIZE : {1}]

InitLoad ==
    /\ config \in LoadConfigs
    /\ stage = IF config.NUM_SESSIONS > 0 THEN "sessions" ELSE "save"
    /\ error = "none"
    /\ categories = TxnCategories
    /\ products = <<TxnProduct(0, 305, 2, TRUE), TxnProduct(1, 5000, 0, TRUE)>>
    /\ users = <<TxnUser(0, "active")>>
    /\ transactions = <<>>
    /\ sessions = <<>>
    /\ txn_i = 0
    /\ attempt = NoAttempt
    /\ files = <<>>
    /\ summary = NoSummary
    /\ runs = NoRuns
    /\ random = [PlainDraws EXCEPT !.viewed = {0, 1}]
    /\ inv = NoInventory
    /\ loader \in {NewLoader(kind) : kind \in Loaders}

NextLoad ==
    \/ generate_simple_sessions
    \/ save_data
    \/ generate_summary
    \/ HBaseLoader
    \/ ShellLoader
    \/ MongoLoader

SpecLoad == InitLoad /\ [][NextLoad]_vars

(***************************************************************************)
(* save_data over enough sessions to fill FileWindow chunk files of one    *)
(* session, or one file more, of one session or of WideChunk, then one of  *)
(* the loaders.                                                            *)
(***************************************************************************)
WideChunk == 6       \* a CHUNK_SIZE above the 5 sessions of a shell batch

\* n sessions as _generate_simple_sessions makes them for a draw of k = 0
FileSessions(n) == [i \in 1..n |-> [user_id |-> 0, products_viewed |-> <<>>]]

FilesConfigs ==
    {[NUM_CATEGORIES |-> 1, NUM_PRODUCTS |-> 2, NUM_USERS |-> 1,
      NUM_TRANSACTIONS |-> 0, NUM_SESSIONS |-> FileWindow * size + more,
      CHUNK_SIZE |-> size] :
        size \in {1, WideChunk}, more \in {0, 1}} \
    {[NUM_CATEGORIES |-> 1, NUM_PRODUCTS |-> 2, NUM_USERS |-> 1,
      NUM_TRANSACTIONS |-> 0, NUM_SESSIONS |-> FileWindow * WideChunk,
      CHUNK_SIZE |-> WideChunk]}

InitFiles ==
    /\ config \in FilesConfigs
    /\ stage = "save"
    /\ error = "none"
    /\ categories = TxnCategories
    /\ products = <<TxnProduct(0, 305, 2, TRUE), TxnProduct(1, 5000, 0, TRUE)>>
    /\ users = <<TxnUser(0, "active")>>
    /\ transactions = <<>>
    /\ sessions = FileSessions(config.NUM_SESSIONS)
    /\ txn_i = 0
    /\ attempt = NoAttempt
    /\ files = <<>>
    /\ summary = NoSummary
    /\ runs = NoRuns
    /\ random = [PlainDraws EXCEPT !.viewed = {}]
    /\ inv = NoInventory
    /\ loader \in {NewLoader(kind) : kind \in Loaders}

NextFiles ==
    \/ save_data
    \/ generate_summary
    \/ HBaseLoader
    \/ ShellLoader
    \/ MongoLoader

SpecFiles == InitFiles /\ [][NextFiles]_vars

(***************************************************************************)
(* save_data over two batches of sessions and one more, in chunks around   *)
(* the batch size, then HBaseSessionLoader.                                *)
(***************************************************************************)
BatchConfigs ==
    {[NUM_CATEGORIES |-> 1, NUM_PRODUCTS |-> 2, NUM_USERS |-> 1,
      NUM_TRANSACTIONS |-> 0, NUM_SESSIONS |-> 2 * BatchSize + 1,
      CHUNK_SIZE |-> size] :
        size \in {BatchSize - 1, BatchSize, BatchSize + 1, 2 * BatchSize + 1}}

InitBatch ==
    /\ config \in BatchConfigs
    /\ stage = "save"
    /\ error = "none"
    /\ categories = TxnCategories
    /\ products = <<TxnProduct(0, 305, 2, TRUE), TxnProduct(1, 5000, 0, TRUE)>>
    /\ users = <<TxnUser(0, "active")>>
    /\ transactions = <<>>
    /\ sessions = FileSessions(config.NUM_SESSIONS)
    /\ txn_i = 0
    /\ attempt = NoAttempt
    /\ files = <<>>
    /\ summary = NoSummary
    /\ runs = NoRuns
    /\ random = [PlainDraws EXCEPT !.viewed = {}]
    /\ inv = NoInventory
    /\ loader = NewLoader("hbase")

NextBatch ==
    \/ save_data
    \/ generate_summary
    \/ HBaseLoader

SpecBatch == InitBatch /\ [][NextBatch]_vars

(***************************************************************************)
(* Properties.                                                             *)
(***************************************************************************)
ProductIds == {products[i].product_id : i \in 1..Len(products)}
UserIds == {users[i].user_id : i \in 1..Len(users)}
ProductIndex(pid) == CHOOSE i \in 1..Len(products) : products[i].product_id = pid

\* The items of all transactions that reference product pid, as
\* <<transaction number, item number>> pairs.
ItemsOf(pid) ==
    {<<t, j>> \in (1..Len(transactions)) \X (1..MaxItems) :
        /\ j <= Len(transactions[t].items)
        /\ transactions[t].items[j].product_id = pid}

\* An iteration of the transaction loop is about to run.
TxnIterationPending ==
    stage = "transactions" /\ txn_i < config.NUM_TRANSACTIONS

\* C1: between any two iterations of the transaction loop and after the
\* whole stage, every product's current_stock is >= 0.
C1_StockNeverNegative ==
    \A i \in 1..Len(products) : products[i].current_stock >= 0

\* C1 witness: a product was sold until its stock reached exactly 0.
C1_Witness ==
    \E i \in 1..Len(products) :
        /\ products[i].current_stock = 0
        /\ ItemsOf(products[i].product_id) # {}

\* C2: every item of the transaction an iteration appends has a quantity q
\* with 1 <= q <= min(3, s), s the stock of its product just before the
\* iteration, and the iteration lowers that product's stock by exactly q.
C2_QuantityWithinStock ==
    [][(TxnIterationPending /\ Len(transactions') = Len(transactions) + 1) =>
         LET t == transactions'[Len(transactions')]
         IN  \A j \in 1..Len(t.items) :
               LET i == ProductIndex(t.items[j].product_id)
                   q == t.items[j].quantity
                   s == products[i].current_stock
               IN  /\ 1 <= q
                   /\ q <= Min(3, s)
                   /\ products'[i].current_stock = s - q]_vars

\* C2 witness: a first transaction took 3 units of a product that had 4, and
\* the next one, seeing the reduced stock, could take only the last unit.
C2_Witness ==
    /\ Len(transactions) = 2
    /\ \E j, k \in 1..MaxItems :
         /\ j <= Len(transactions[1].items)
         /\ k <= Len(transactions[2].items)
         /\ transactions[1].items[j].product_id = 0
         /\ transactions[2].items[k].product_id = 0
         /\ transactions[1].items[j].quantity = 3
         /\ transactions[2].items[k].quantity = 1
    /\ products[1].current_stock = 0

TransactionsOf(uid) ==
    {t \in 1..Len(transactions) : transactions[t].user_id = uid}

RECURSIVE TotalsOf(_, _)
\* the sum of the totals of the first n transactions that belong to uid
TotalsOf(uid, n) ==
    IF n = 0 THEN 0
    ELSE TotalsOf(uid, n - 1)
         + (IF transactions[n].user_id = uid THEN transactions[n].total ELSE 0)

\* C3: for every user, total_orders is the number of transactions with the
\* user's id and lifetime_value is the sum of their totals, whatever their
\* status.
C3_UserAggregates ==
    \A i \in 1..Len(users) :
        /\ users[i].total_orders = Cardinality(TransactionsOf(users[i].user_id))
        /\ users[i].lifetime_value =
             TotalsOf(users[i].user_id, Len(transactions))

\* C3 witness: a user with two transactions, one of them cancelled.
C3_Witness ==
    \E i \in 1..Len(users) :
        /\ users[i].total_orders = 2
        /\ \E t \in TransactionsOf(users[i].user_id) :
             transactions[t].status = "cancelled"
        /\ \E t \in TransactionsOf(users[i].user_id) :
             transactions[t].status # "cancelled"

\* C4: every transaction's total is round(subtotal - discount + tax +
\* shipping, 2) of its own recorded 2-decimal fields.
C4_TotalFromRoundedTerms ==
    \A t \in 1..Len(transactions) :
        LET x == transactions[t]
        IN  RoundCents((x.subtotal - x.discount + x.tax + x.shipping) * 100)
              = {x.total}

\* C4 witness: a transaction whose discount and tax were both rounded: a
\* subtotal of 3.05 with 15% off, discount 0.46 (of 0.4575), tax 0.24 (of
\* 0.244).
C4_Witness ==
    \E t \in 1..Len(transactions) :
        /\ transactions[t].subtotal = 305
        /\ transactions[t].discount = 46
        /\ transactions[t].tax = 24
        /\ transactions[t].total = 1282

\* C5: every transaction's subtotal is the sum of its items' subtotals, and
\* every item's subtotal is its quantity times its unit_price.
C5_SubtotalIsSumOfItems ==
    \A t \in 1..Len(transactions) :
        LET items == transactions[t].items
        IN  /\ transactions[t].subtotal =
                 SeqSum([j \in 1..Len(items) |-> items[j].subtotal])
            /\ \A j \in 1..Len(items) :
                 items[j].subtotal = items[j].quantity * items[j].unit_price

\* C5 witness: a transaction of two items, one of them with a quantity of 3.
C5_Witness ==
    \E t \in 1..Len(transactions) :
        /\ Len(transactions[t].items) = 2
        /\ \E j \in 1..2 : transactions[t].items[j].quantity = 3

\* C6: referential integrity in every state of the run: transactions and
\* sessions name generated users, items name generated products, and a
\* product's category_id names a generated category that holds its
\* subcategory_id.
C6_ReferentialIntegrity ==
    /\ \A t \in 1..Len(transactions) :
         /\ transactions[t].user_id \in UserIds
         /\ \A j \in 1..Len(transactions[t].items) :
              transactions[t].items[j].product_id \in ProductIds
    /\ \A s \in 1..Len(sessions) : sessions[s].user_id \in UserIds
    /\ \A i \in 1..Len(products) :
         \E c \in 1..Len(categories) :
           /\ categories[c].category_id = products[i].category_id
           /\ \E k \in 1..Len(categories[c].subcategories) :
                categories[c].subcategories[k].subcategory_id =
                  products[i].subcategory_id

\* C6 witness: a finished run with two categories, a product of the second
\* one, a transaction and a session.
C6_Witness ==
    /\ stage = "done"
    /\ Len(categories) = 2
    /\ \E i \in 1..Len(products) : products[i].category_id = 1
    /\ transactions # <<>>
    /\ sessions # <<>>

\* C7: two finished runs with the same seed and configuration wrote the
\* same transactions file and the same summary.
C7_SameSeedSameOutput ==
    (runs.A.summary # NoSummary /\ runs.B.summary # NoSummary) =>
        /\ runs.A.transactions = runs.B.transactions
        /\ runs.A.summary = runs.B.summary

\* C8: generate_users never raises: every iteration appends a user, with at
\* most as many preferred categories as there are active categories.
C8_UsersNeverRaise ==
    [][(stage = "users" /\ Len(users) < config.NUM_USERS) =>
         /\ stage' # "failed"
         /\ Len(users') = Len(users) + 1]_vars

\* C9: generate_all fails only with an I/O error of a file write.
C9_OnlyWriteErrorsFail ==
    stage = "failed" => error = "OSError"

\* C10: an iteration that draws more items than there are active in-stock
\* products is skipped: the loop goes on without an error, and no
\* transaction, stock or user changes; so there are never more transactions
\* than iterations, nor than NUM_TRANSACTIONS.
C10_SoftSkip ==
    /\ [](Len(transactions) <= txn_i /\ txn_i <= config.NUM_TRANSACTIONS)
    /\ [][(TxnIterationPending
           /\ attempt'.num_items > Cardinality(AvailableProducts)) =>
            /\ attempt'.outcome = "skipped"
            /\ txn_i' = txn_i + 1
            /\ stage' # "failed"
            /\ UNCHANGED <<error, transactions, products, users>>]_vars

\* C10 witness: after a transaction sold the last stock, an iteration that
\* drew one item found no product and was skipped.
C10_Witness ==
    /\ attempt.outcome = "skipped"
    /\ attempt.num_items = 1
    /\ attempt.available = 0
    /\ Len(transactions) = 1
    /\ txn_i = 2

\* C11: the transaction stage always ends after exactly NUM_TRANSACTIONS
\* attempts and without an error, however little stock there is to sell.
C11_EndsAfterAllAttempts ==
    [][(stage = "transactions" /\ stage' # "transactions") =>
         /\ txn_i' = config.NUM_TRANSACTIONS
         /\ stage' # "failed"]_vars

Abs(x) == IF x < 0 THEN -x ELSE x

\* The summary document has been written.
SummaryWritten == summary # NoSummary

\* C12 as stated: the conversion_rate of the summary is transactions /
\* sessions rounded to 2 decimals (held in hundredths, it is within half a
\* hundredth of the exact quotient).
C12_RateIsFraction ==
    (SummaryWritten /\ sessions # <<>>) =>
        2 * Abs(summary[1].conversion_rate * Len(sessions)
                - 100 * Len(transactions)) <= Len(sessions)

\* C12 amended: the conversion_rate of the summary is the percentage
\* 100 * transactions / sessions rounded to 2 decimals, and 0 when there is
\* no session.
C12_RateIsPercentage ==
    SummaryWritten =>
        IF sessions = <<>> THEN summary[1].conversion_rate = 0
        ELSE 2 * Abs(summary[1].conversion_rate * Len(sessions)
                     - 10000 * Len(transactions)) <= Len(sessions)

\* C12 witness: 2 transactions for 3 sessions, written as 66.67.
C12_Witness ==
    /\ SummaryWritten
    /\ Len(transactions) = 2
    /\ Len(sessions) = 3
    /\ summary[1].conversion_rate = 6667

\* C13: with no transaction or no session, _generate_summary raises no
\* ZeroDivisionError and writes average_transaction_value = 0 when there is
\* no transaction and conversion_rate = 0 when there is no session.
C13_EmptyDatasetSummary ==
    (transactions = <<>> \/ sessions = <<>>) =>
        /\ error # "ZeroDivisionError"
        /\ SummaryWritten =>
             /\ transactions = <<>> =>
                  summary[1].average_transaction_value = 0
             /\ sessions = <<>> => summary[1].conversion_rate = 0

RECURSIVE ChunksUpTo(_)
\* the sessions of the files numbered 0 .. k-1, in the order of the numbers
ChunksUpTo(k) == IF k = 0 THEN <<>> ELSE ChunksUpTo(k - 1) \o files[k - 1]

\* C14: once save_data has written the chunks, the files are numbered
\* 0, 1, ... without a gap, none is empty or longer than CHUNK_SIZE, all
\* but the last hold exactly CHUNK_SIZE sessions, their concatenation in
\* the order of the numbers is the session sequence, and there are
\* ceil(len(sessions) / CHUNK_SIZE) of them.
C14_SessionChunks ==
    stage \in {"summary", "done"} =>
        LET size == config.CHUNK_SIZE
            k == Cardinality(DOMAIN files)
        IN  /\ DOMAIN files = 0..(k - 1)
            /\ \A f \in DOMAIN files :
                 /\ 1 <= Len(files[f])
                 /\ Len(files[f]) <= size
                 /\ f < k - 1 => Len(files[f]) = size
            /\ ChunksUpTo(k) = sessions
            /\ (k - 1) * size < Len(sessions) \/ (k = 0 /\ sessions = <<>>)
            /\ Len(sessions) <= k * size

\* C14 witness: three sessions saved in chunks of two: sessions_000 holds
\* two, sessions_001 the third.
C14_Witness ==
    /\ stage = "done"
    /\ Len(sessions) = 3
    /\ config.CHUNK_SIZE = 2
    /\ DOMAIN files = {0, 1}
    /\ Len(files[0]) = 2
    /\ Len(files[1]) = 1

\* C15: for every NUM_CATEGORIES, generate_categories succeeds and leaves
\* min(NUM_CATEGORIES, 10) categories, never more than NUM_CATEGORIES, with
\* the ids 0, 1, ... (cat_000, cat_001, ...) in order, each with at least one
\* subcategory and no subcategory_id twice within a category.
C15_CategoriesClamped ==
    stage # "categories" =>
        /\ stage # "failed"
        /\ Len(categories) =
             (IF config.NUM_CATEGORIES < 10 THEN config.NUM_CATEGORIES ELSE 10)
        /\ Len(categories) <= config.NUM_CATEGORIES
        /\ \A i \in 1..Len(categories) :
             LET subs == categories[i].subcategories
             IN  /\ categories[i].category_id = i - 1
                 /\ Len(subs) >= 1
                 /\ \A j, k \in 1..Len(subs) :
                      j # k => subs[j].subcategory_id # subs[k].subcategory_id

\* C15 witness: 11 categories were asked for and the 10 of the taxonomy
\* were generated.
C15_Witness ==
    /\ stage # "categories"
    /\ config.NUM_CATEGORIES = 11
    /\ Len(categories) = 10
    /\ categories[10].category_id = 9

\* C16: every product's price_history has 1 to 5 entries, the first with
\* the reason "initial_listing", and every later entry is dated 7 to 45 days
\* after the entry before it.
C16_PriceHistoryOrdered ==
    \A i \in 1..Len(products) :
        LET h == products[i].price_history
        IN  /\ 1 <= Len(h)
            /\ Len(h) <= 5
            /\ h[1].reason = "initial_listing"
            /\ \A j \in 2..Len(h) :
                 /\ h[j].date - h[j - 1].date >= 7
                 /\ h[j].date - h[j - 1].date <= 45

\* C16 witness: a product with five entries, one of them 7 days and one 45
\* days after the entry before it.
C16_Witness ==
    \E i \in 1..Len(products) :
        LET h == products[i].price_history
        IN  /\ Len(h) = 5
            /\ \E j \in 2..5 : h[j].date - h[j - 1].date = 7
            /\ \E j \in 2..5 : h[j].date - h[j - 1].date = 45

\* the profit_margin of the subcategory product p belongs to
MarginOf(p) ==
    LET c == CHOOSE c \in 1..Len(categories) :
                 categories[c].category_id = p.category_id
        subs == categories[c].subcategories
    IN  subs[CHOOSE s \in 1..Len(subs) :
                 subs[s].subcategory_id = p.subcategory_id].profit_margin

\* C17: every product's base_price is the price of its last price_history
\* entry, its cost is base_price * (1 - profit_margin of its subcategory)
\* rounded to 2 decimals and is <= base_price; no step after the product's
\* creation, transaction generation included, changes either value.
C17_BasePriceAndCost ==
    /\ [](\A i \in 1..Len(products) :
            LET p == products[i]
            IN  /\ p.base_price = p.price_history[Len(p.price_history)].price
                /\ 2 * Abs(p.cost * 1000
                           - p.base_price * (1000 - MarginOf(p))) <= 1000
                /\ p.cost <= p.base_price)
    /\ [][\A i \in 1..Len(products) :
            /\ products'[i].base_price = products[i].base_price
            /\ products'[i].cost = products[i].cost]_vars

\* C17 witness: a product whose price was changed, sold in a transaction at
\* the changed price.
C17_Witness ==
    /\ transactions # <<>>
    /\ \E i \in 1..Len(products) :
         LET p == products[i]
         IN  /\ Len(p.price_history) > 1
             /\ p.base_price # p.price_history[1].price
             /\ p.cost < p.base_price
             /\ transactions[1].items[1].unit_price = p.base_price

\* C18: every transaction belongs to a user whose account_status is
\* "active" and has 1 to 5 items of pairwise distinct products, each of which
\* was active and had current_stock > 0 when the transaction was created.
C18_ActiveUserDistinctItems ==
    /\ [](\A t \in 1..Len(transactions) :
            LET items == transactions[t].items
            IN  /\ \E u \in 1..Len(users) :
                     /\ users[u].user_id = transactions[t].user_id
                     /\ users[u].account_status = "active"
                /\ 1 <= Len(items)
                /\ Len(items) <= 5
                /\ \A j, k \in 1..Len(items) :
                     j # k => items[j].product_id # items[k].product_id)
    /\ [][Len(transactions') = Len(transactions) + 1 =>
            LET items == transactions'[Len(transactions')].items
            IN  \A j \in 1..Len(items) :
                  LET p == products[ProductIndex(items[j].product_id)]
                  IN  p.is_active /\ p.current_stock > 0]_vars

\* C18 witness: a transaction of two distinct products, generated while the
\* user list holds a user who is not active.
C18_Witness ==
    /\ \E u \in 1..Len(users) : users[u].account_status # "active"
    /\ \E t \in 1..Len(transactions) :
         /\ Len(transactions[t].items) = 2
         /\ transactions[t].items[1].product_id
              # transactions[t].items[2].product_id

C20_ViewedFromFirstHundred ==
    \A s \in 1..Len(sessions) :
        LET viewed == sessions[s].products_viewed
        IN  /\ Len(viewed) <= 5
            /\ \A j, k \in 1..Len(viewed) : j # k => viewed[j] # viewed[k]
            /\ \A j \in 1..Len(viewed) :
                 \E i \in 1..Len(products) :
                   /\ i <= 100
                   /\ products[i].product_id = viewed[j]

\* C20 witness: with 101 products, a session viewed five products, the
\* 100th among them.
C20_Witness ==
    /\ Len(products) = 101
    /\ \E s \in 1..Len(sessions) :
         /\ Len(sessions[s].products_viewed) = 5
         /\ \E j \in 1..5 :
              sessions[s].products_viewed[j] = products[100].product_id

\* the place of a stage in generate_all
Rank(st) ==
    CASE st = "categories" -> 1
      [] st = "products" -> 2
      [] st = "users" -> 3
      [] st = "transactions" -> 4
      [] st = "sessions" -> 5
      [] st = "save" -> 6
      [] st = "summary" -> 7
      [] st = "done" -> 8

\* C22: generate_all runs categories, products, users, transactions,
\* sessions, save, summary in this order, each once and only after the one
\* before it is complete: nothing of a stage exists before its turn, all of
\* it exists after; it returns True ("done") only with the summary written;
\* once a stage has raised ("failed") nothing runs any more.
C22_StagesInOrder ==
    /\ [](stage # "failed" =>
            LET r == Rank(stage)
            IN  /\ r <= 1 => categories = <<>>
                /\ r < 2 => products = <<>>
                /\ r > 2 => Len(products) = config.NUM_PRODUCTS
                /\ r < 3 => users = <<>>
                /\ r > 3 => Len(users) = config.NUM_USERS
                /\ r < 4 => txn_i = 0 /\ transactions = <<>>
                /\ r > 4 => txn_i = config.NUM_TRANSACTIONS
                /\ r < 5 => sessions = <<>>
                /\ r > 5 => Len(sessions) = config.NUM_SESSIONS
                /\ r <= 6 => DOMAIN files = {}
                /\ r > 6 => Cardinality(DOMAIN files) * config.CHUNK_SIZE
                              >= Len(sessions)
                /\ r < 8 => summary = NoSummary
                /\ r = 8 => summary # NoSummary)
    /\ [][stage' # stage =>
            /\ stage \notin {"failed", "done"}
            /\ stage' = "failed" \/ Rank(stage') > Rank(stage)
            /\ stage' = "done" => stage = "summary"]_vars
    /\ [][(stage \in {"failed", "done"}) =>
            (UNCHANGED <<stage, error, categories, products, users,
                         transactions, sessions, files, summary>>)]_vars

\* C22 witness: a run that returned True after every stage produced data.
C22_Witness ==
    /\ stage = "done"
    /\ categories # <<>>
    /\ products # <<>>
    /\ users # <<>>
    /\ transactions # <<>>
    /\ sessions # <<>>
    /\ DOMAIN files # {}

\* the fields of a product other than current_stock
ProductFrame(p) == [p EXCEPT !.current_stock = 0]

\* the fields of a user other than total_orders and lifetime_value
UserFrame(u) == [u EXCEPT !.total_orders = 0, !.lifetime_value = 0]

\* C23: the transaction stage changes nothing of the categories, products
\* and users but current_stock, total_orders and lifetime_value, and the
\* session, save and summary stages change no category, product, user or
\* transaction.
C23_Frame ==
    /\ [][stage = "transactions" =>
            /\ categories' = categories
            /\ Len(products') = Len(products)
            /\ \A i \in 1..Len(products) :
                 ProductFrame(products'[i]) = ProductFrame(products[i])
            /\ Len(users') = Len(users)
            /\ \A i \in 1..Len(users) :
                 UserFrame(users'[i]) = UserFrame(users[i])]_vars
    /\ [][(stage \in {"sessions", "save", "summary"}) =>
            (UNCHANGED <<categories, products, users, transactions>>)]_vars

\* C23 witness: a finished run in which a transaction changed the stock
\* and the user's totals and a session was generated after it.
C23_Witness ==
    /\ stage = "done"
    /\ sessions # <<>>
    /\ products[1].current_stock < TailProducts[1].current_stock
    /\ users[1].total_orders > 0

\* C24: every transaction's tax is 8% of its subtotal rounded to 2
\* decimals; its shipping is 0 if the subtotal is above 50 and 9.99 if not,
\* a subtotal of exactly 50 included.
C24_TaxAndShipping ==
    \A t \in 1..Len(transactions) :
        LET x == transactions[t]
        IN  /\ 2 * Abs(x.tax * 100 - x.subtotal * 8) <= 100
            /\ x.subtotal > 5000 => x.shipping = 0
            /\ x.subtotal <= 5000 => x.shipping = 999

RECURSIVE SoldUpTo(_, _)
\* the quantity of product pid in the items of the first n transactions
SoldUpTo(pid, n) ==
    IF n = 0 THEN 0
    ELSE SoldUpTo(pid, n - 1)
         + SeqSum([j \in 1..Len(transactions[n].items) |->
                     IF transactions[n].items[j].product_id = pid
                     THEN transactions[n].items[j].quantity ELSE 0])

\* C26: at every point of the transaction stage, the stock a product was
\* generated with, less its stock now, is the quantity of it in the items
\* of the transactions so far; a skipped attempt takes no stock and no step
\* gives stock back.
C26_StockConservation ==
    /\ [](\A i \in 1..Len(products) :
            TailProducts[i].current_stock - products[i].current_stock
              = SoldUpTo(products[i].product_id, Len(transactions)))
    /\ [][\A i \in 1..Len(products) :
            /\ products'[i].current_stock <= products[i].current_stock
            /\ transactions' = transactions =>
                 products'[i].current_stock = products[i].current_stock]_vars

\* C26 witness: of two attempts one was skipped and the other took one unit
\* of a product generated with two.
C26_Witness ==
    /\ txn_i = 2
    /\ Len(transactions) = 1
    /\ products[1].current_stock = 1
    /\ SoldUpTo(0, 1) = 1

\* the threads that have a finished call to show
Returned == {t \in DOMAIN inv.thread : inv.thread[t].result # "none"}

\* C27: update_stock is an atomic check-and-decrement.  Under every
\* interleaving of the callers: a call returns True exactly when the product
\* is known and its stock was at least the quantity when the call got the
\* lock, and then leaves the stock lower by the quantity; a call that returns
\* False leaves the stock as it found it; the stock is never negative; and
\* with every caller outside update_stock the stock is the initial stock
\* less the quantities of the calls that returned True.
C27_AtomicUpdateStock ==
    /\ \A i \in 1..Len(products) : products[i].current_stock >= 0
    /\ \A t \in Returned :
         LET c == inv.thread[t]
         IN  /\ c.result = "True" <=> (/\ KnownProducts(c.product_id) # {}
                                       /\ c.before >= c.quantity)
             /\ c.result = "True" => c.after = c.before - c.quantity
             /\ c.result = "False" => c.after = c.before
    /\ (\A t \in DOMAIN inv.thread : inv.thread[t].pc = "idle") =>
         \A i \in DOMAIN inv.initial :
            products[i].current_stock
              = inv.initial[i]
                - SeqSum([t \in DOMAIN inv.thread |->
                            inv.thread[t].taken[i]])

\* C27 witness: thread 1 holds the lock, has found one unit in stock and
\* taken it, and has not returned yet; thread 2 asks for one unit of the same
\* product and waits for the lock.
C27_Witness ==
    /\ inv.lock = 1
    /\ inv.thread[1].pc = "return"
    /\ inv.thread[1].before = 1 /\ inv.thread[1].quantity = 1
    /\ products[1].current_stock = 0
    /\ inv.thread[2].pc = "lock"
    /\ inv.thread[2].product_id = 0 /\ inv.thread[2].quantity = 1

\* the batches a loader sent and the write took
Written == {i \in 1..Len(loader.batches) : loader.batches[i].ok}

\* the session behind row j of a batch
SessionOf(batch, j) == files[batch.file][batch.from + j - 1]

\* the product ids a generated session viewed
ViewedBy(session) == session.products_viewed

\* C21: every session the generator emits carries its viewed product ids
\* under the name viewed_products, the name the HBase loaders read, so that
\* the row of a session that viewed k products records the count k, and the
\* product interactions gathered are all the views of the files read.
C21_ViewedCountAgrees ==
    /\ \A i \in 1..Len(sessions) : "viewed_products" \in DOMAIN sessions[i]
    /\ loader.kind \in {"hbase", "shell"} =>
         \A i \in Written :
            \A j \in 1..Len(loader.batches[i].rows) :
               loader.batches[i].rows[j].products_viewed
                 = Len(ViewedBy(SessionOf(loader.batches[i], j)))
    /\ \A i \in 1..Len(loader.stages) :
         (/\ loader.stages[i].name = "load_product_interaction_data"
          /\ loader.stages[i].ok) =>
            loader.views
              = SeqSum([s \in 1..Len(sessions) |-> Len(ViewedBy(sessions[s]))])

\* the order of run_complete_loading
StageOrder ==
    <<"connect", "verify_tables", "load_session_files",
      "load_product_interaction_data", "verify_data_loading">>

\* C29: run_complete_loading runs connect, verify_tables,
\* load_session_files, load_product_interaction_data, verify_data_loading
\* in this order; it returns True only if the four stages other than
\* load_product_interaction_data succeeded; when one of the four fails it
\* returns False at once, with no later stage; a failure of
\* load_product_interaction_data lets the run go on; and a run that has
\* returned has closed the connection it had established.
C29_StageProtocol ==
    loader.kind = "hbase" =>
      LET done == loader.stages
          n == Len(done)
      IN  /\ n <= Len(StageOrder)
          /\ \A i \in 1..n : done[i].name = StageOrder[i]
          /\ loader.result = "True" =>
               /\ n = Len(StageOrder)
               /\ \A i \in 1..n :
                    done[i].name # "load_product_interaction_data"
                      => done[i].ok
          /\ \A i \in 1..n :
               ~done[i].ok =>
                 IF done[i].name = "load_product_interaction_data"
                 THEN i = n => loader.pc = "verify_data_loading"
                 ELSE i = n /\ loader.pc = "returned"
                      /\ loader.result = "False"
          /\ loader.result = "False" => n > 0 /\ ~done[n].ok
          /\ loader.pc = "returned" =>
               /\ loader.result \in {"True", "False"}
               /\ loader.connection # "open"
               /\ (n > 0 /\ done[1].ok) => loader.connection = "closed"

\* C29 witness: a run that returned True although
\* load_product_interaction_data failed, with its connection closed.
C29_Witness ==
    /\ loader.kind = "hbase"
    /\ loader.result = "True"
    /\ ~loader.stages[4].ok
    /\ loader.connection = "closed"
    /\ Len(loader.batches) > 0

\* the files of session_files
FoundFiles == {loader.session_files[i] : i \in 1..Len(loader.session_files)}

\* the loop over session_files has been entered and left
LoopEnded == loader.file > 0 /\ loader.pc \notin {"open", "write"}

\* the sessions of batch i
BatchLen(i) == loader.batches[i].to - loader.batches[i].from + 1

\* batch i is followed by a batch of the same file
FileGoesOn(i) ==
    \E j \in (i + 1)..Len(loader.batches) :
        loader.batches[j].file = loader.batches[i].file

\* every file found is opened once the loop has ended, in the order found,
\* and a file that could not be read gives no batch
LaterFilesAttempted ==
    /\ loader.attempted \subseteq FoundFiles
    /\ loader.pc \in {"open", "write"} =>
         loader.attempted
           = {loader.session_files[i] :
                i \in 1..(IF loader.pc = "open" THEN loader.file - 1
                          ELSE loader.file)}
    /\ LoopEnded => loader.attempted = FoundFiles
    /\ \A i \in 1..Len(loader.batches) :
         loader.batches[i].file \in loader.attempted \ loader.unread

\* C25 as stated: in the file loop of each loader a failure while reading,
\* parsing or writing one session file is caught and that file is skipped,
\* no batch of it is sent after the failure; every later file is still
\* attempted and the loop is not aborted.
C25_FailedFileSkipped ==
    /\ LaterFilesAttempted
    /\ \A i \in 1..Len(loader.batches) :
         ~loader.batches[i].ok => ~FileGoesOn(i)

\* C25, amended: a file that cannot be read or parsed is skipped; a failed
\* batch write makes load_session_files leave the file, while the shell and
\* the MongoDB loader lose that batch only and send the sessions after it;
\* every later file is still attempted and the loop is not aborted.
C25_LaterFilesAttempted ==
    /\ LaterFilesAttempted
    /\ \A i \in 1..Len(loader.batches) :
         LET b == loader.batches[i]
         IN  IF loader.kind = "hbase" /\ ~b.ok THEN ~FileGoesOn(i)
             ELSE b.to < Len(files[b.file]) =>
                    IF i < Len(loader.batches)
                    THEN /\ loader.batches[i + 1].file = b.file
                         /\ loader.batches[i + 1].from = b.to + 1
                    ELSE /\ loader.pc = "write"
                         /\ loader.session_files[loader.file] = b.file
                         /\ loader.pos = b.to

\* C25 witness: the shell loader's first batch of the first file failed, the
\* rest of that file was sent, and every file found was opened.
C25_Witness ==
    /\ loader.kind = "shell"
    /\ LoopEnded
    /\ Len(loader.batches) > 2
    /\ ~loader.batches[1].ok
    /\ loader.batches[2].file = loader.batches[1].file
    /\ loader.batches[2].ok
    /\ loader.attempted = FoundFiles
    /\ Cardinality(FoundFiles) > 1

BatchesOf(f) ==
    {i \in 1..Len(loader.batches) : loader.batches[i].file = f}

\* the loader is done with file f
FileEnded(f) ==
    /\ f \in loader.attempted
    /\ loader.pc \in {"open", "write"} =>
         loader.session_files[loader.file] # f \/ loader.pc = "open"

\* C30: in load_session_files every batch sent holds at most 1000 rows, the
\* rows of its sessions in file order; no session is in two batches;
\* total_sessions_loaded is the number of sessions in the batches written;
\* a file whose batches were all written has every session written once, in
\* file order; a failed batch is the last of its file, and the batches sent
\* before stay sent and counted.
C30_BatchAccounting ==
    /\ [](loader.kind = "hbase" =>
           /\ \A i \in 1..Len(loader.batches) :
                LET b == loader.batches[i]
                IN  /\ BatchLen(i) >= 1 /\ BatchLen(i) <= BatchSize
                    /\ Len(b.rows) = BatchLen(i)
                    /\ \A j \in 1..Len(b.rows) :
                         b.rows[j] = Row("hbase", SessionOf(b, j))
                    /\ ~b.ok => ~FileGoesOn(i)
                    /\ \A j \in (i + 1)..Len(loader.batches) :
                         loader.batches[j].file = b.file =>
                           /\ loader.batches[j].from > b.to
                           /\ loader.batches[i + 1].file = b.file
                           /\ loader.batches[i + 1].from = b.to + 1
                    /\ (\A j \in 1..(i - 1) :
                          loader.batches[j].file # b.file) => b.from = 1
           /\ loader.total
                = SeqSum([i \in 1..Len(loader.batches) |->
                            IF loader.batches[i].ok THEN BatchLen(i) ELSE 0])
           /\ \A f \in loader.attempted \ loader.unread :
                (FileEnded(f) /\ \A i \in BatchesOf(f) : loader.batches[i].ok)
                  => \E i \in BatchesOf(f) :
                       loader.batches[i].to = Len(files[f]))
    /\ [][/\ Len(loader'.batches) >= Len(loader.batches)
          /\ SubSeq(loader'.batches, 1, Len(loader.batches)) = loader.batches
          /\ loader'.total >= loader.total]_vars

\* C30 witness: a file of 2001 sessions written in batches of 1000, 1000
\* and 1, and counted.
C30_Witness ==
    /\ loader.kind = "hbase"
    /\ LoopEnded
    /\ Len(loader.batches) = 3
    /\ \A i \in 1..3 : loader.batches[i].ok /\ loader.batches[i].file = 0
    /\ BatchLen(1) = BatchSize /\ BatchLen(2) = BatchSize /\ BatchLen(3) = 1
    /\ loader.total = 2 * BatchSize + 1

====
